---- MODULE Spec2Model ----
(***************************************************************************)
(* Block production core of the validator client: the builder client's     *)
(* reveal (ExecutionBuilderHttp.submitBlindedBlock), the arbitration of    *)
(* engine and builder production (produceBlockV3), the proposing service   *)
(* (BlockProposingService.createAndPublishBlock) and the builder client's  *)
(* constructor and gate (updateStatus, checkStatus); and the regular sync  *)
(* of the beacon node that fetches one range ahead (ORARegularSync).       *)
(*                                                                         *)
(* The specifications of the module:                                       *)
(*   SpecReveal   one call of submitBlindedBlock on a bounded request and  *)
(*                a bounded relay response;                                *)
(*   SpecArb      one arbitration between the engine and the builder call; *)
(*   Spec         the proposing service at one fork: one duty notification *)
(*                at deneb, up to MaxNotifications at capella, each        *)
(*                starting one createAndPublishBlock per proposer;         *)
(*   SpecSiblings the proposing service on a slot with several proposers:  *)
(*                the notification that lists them, and a later one;       *)
(*   SpecAbort    Spec with a caller whose abort signal may fire;          *)
(*   SpecBuilder  construction of ExecutionBuilderHttp on bounded options, *)
(*                then updateStatus and checkStatus in any order.          *)
(*   SpecGate     the constructed builder client with registerValidator,   *)
(*                getHeader and submitBlindedBlock called around the gate; *)
(*   SpecSync     ORARegularSync: start, stop, gossip blocks and the sync  *)
(*                loop over bounded ranges of the fetcher;                 *)
(*   SpecSyncLive SpecSync with the pending promises of the loop settling; *)
(*   SpecSyncRead SpecSync with getHighestBlock called at any moment.      *)
(* Each leaves the variables of the other components at their idle values. *)
(***************************************************************************)
EXTENDS Integers, Sequences, FiniteSets, TLC

VARIABLES
    \* ---- ExecutionBuilderHttp.submitBlindedBlock
    submitPc,                      \* "idle" | "done"
    signedBlindedBlockOrContents,  \* the argument of the call
    submitData,                    \* res.response.data, or ApiFailure
    submitResult,                  \* what the call returned or threw
    \* ---- produceBlockV3 (arbitration of engine and builder production)
    arbPc,                         \* "start" | "waiting" | "done"
    builderSelection,              \* the selection policy of the call
    fullBlock,                     \* the engine call: produceBlock
    blindedBlock,                  \* the builder call: produceBlindedBlock
    produceBlockCallCount,         \* times the engine call was issued
    produceBlindedBlockCallCount,  \* times the builder call was issued
    completionOrder,               \* the sources in the order their calls ended
    produceBlockV3Result,          \* what the arbitration returned or threw
    \* ---- BlockProposingService
    dutyPc,                        \* "idle" | "notified"
    dutySlot,                      \* the slot of the latest notification
    dutyProposers,                 \* the proposers of the latest notification
    tasks,                         \* one createAndPublishBlock per proposer
    serviceLogs,                   \* what notifyBlockProductionFn itself logged
    forkName,                      \* the fork of the slots followed (config)
    dutiesLeft,                    \* notifications the scheduler has yet to deliver
    abortSignal,                   \* the caller's abort signal has fired
    \* ---- ExecutionBuilderHttp: constructor, updateStatus, checkStatus
    builderPc,                     \* "new" | "constructed" | "threw"
    opts,                          \* the options given to the constructor
    status,                        \* the builder gate
    faultInspectionWindow,
    allowedFaults,
    statusProbe,                   \* api.status() of checkStatus: "none", "inFlight" or its answer
    checkStatusResult,             \* what the last checkStatus returned or threw
    registerValidatorResult,       \* what the last registerValidator returned or threw
    getHeaderResult,               \* what the last getHeader returned or threw
    \* ---- ORARegularSync
    oraPc,                         \* "new" | "started"
    headSlot,                      \* chain.forkChoice.getHead().slot
    currentSlot,                   \* chain.clock.currentSlot
    controller,                    \* "undefined" | "active" | "aborted"
    subscribed,                    \* onGossipBlock is subscribed to gossip blocks
    emitted,                       \* times syncCompleted was emitted
    abortCount,                    \* times controller.abort() was called
    stopCalls,                     \* times stop() was called
    stopResult,                    \* what the last stop() returned or threw
    blockBuffer,
    syncPc,                        \* sync(): "idle" | "awaitFirst" | "awaitAll" | "exited" | "rejected"
    syncError,                     \* the error sync() rejected with
    fetchState,                    \* fetcher.next(): "none" | "pending" | "resolved" | "rejected"
    fetched,                       \* the range fetcher.next() resolved with
    processState,                  \* processUntilComplete: "none" | "pending" | "resolved" | "rejected"
    processing,                    \* the blocks given to processUntilComplete
    fetcherCursor,                 \* the slot the fetcher's next range starts at
    fetchedLog,                    \* the ranges fetched, in order
    processedLog,                  \* the ranges given to processUntilComplete, in order
    iterations,                    \* iterations of the loop of sync() started
    firstRejection,                \* the awaited call that rejected first: "none" | "fetcher" | "processor"
    highestBlock,                  \* what the last getHighestBlock() returned
    gossipSeen                     \* hasBlock(parentRoot) of the gossip blocks delivered, in order

revealVars == <<submitPc, signedBlindedBlockOrContents, submitData, submitResult>>

arbVars == <<arbPc, builderSelection, fullBlock, blindedBlock, produceBlockCallCount,
             produceBlindedBlockCallCount, completionOrder, produceBlockV3Result>>

dutyVars == <<dutyPc, dutySlot, dutyProposers, tasks, serviceLogs, forkName,
              dutiesLeft, abortSignal>>

builderCallVars == <<registerValidatorResult, getHeaderResult>>

builderVars == <<builderPc, opts, status, faultInspectionWindow, allowedFaults,
                 statusProbe, checkStatusResult, builderCallVars>>

syncLifeVars == <<oraPc, controller, subscribed, emitted, abortCount, stopCalls, stopResult>>

syncLoopVars == <<blockBuffer, syncPc, syncError, fetchState, fetched, processState,
                  processing, fetcherCursor, fetchedLog, processedLog, iterations,
                  firstRejection>>

syncVars == <<headSlot, currentSlot, syncLifeVars, syncLoopVars, highestBlock, gossipSeen>>

vars == <<revealVars, arbVars, dutyVars, builderVars, syncVars>>

(***************************************************************************)
(* Bounds of the model.                                                    *)
(***************************************************************************)
\* longest transaction list of a revealed payload
MaxTxs == 2
\* most blinded blob sidecars in a request, most blobs in a bundle
MaxBlobs == 2
\* largest executionPayloadValue a production call returns
MaxValue == 2
\* latest slot of a duty notification
MaxSlot == 2
\* most duty notifications the scheduler delivers
MaxNotifications == 2
\* largest faultInspectionWindow or allowedFaults given as an option
MaxOption == 66
\* most blocks in a range the fetcher returns
MaxRange == 2
\* most iterations of the loop of sync()
MaxIterations == 2
\* most calls of stop() from outside
MaxStops == 2
\* most gossip blocks delivered to onGossipBlock
MaxGossip == 2

\* null of the source (a record, so that it compares with records)
NULL == [null |-> TRUE]

\* All sequences over S of length at most n.
SeqUpTo(S, n) == UNION {[1..k -> S] : k \in 0..n}

(***************************************************************************)
(* 1. ExecutionBuilderHttp.submitBlindedBlock                              *)
(***************************************************************************)

\* A transaction is one of two byte strings.
Transactions == {0, 1}
TransactionLists == SeqUpTo(Transactions, MaxTxs)

\* ssz.bellatrix.Transactions.hashTreeRoot: a collision-free digest of the
\* list (the bits of the list behind a leading 1).
RECURSIVE hashTreeRoot(_)
hashTreeRoot(transactions) ==
    IF transactions = <<>>
    THEN 1
    ELSE 2 * hashTreeRoot(SubSeq(transactions, 1, Len(transactions) - 1))
         + transactions[Len(transactions)]

byteArrayEquals(a, b) == a = b

\* {...obj, field: value}: every field of obj, and field set to value.
Spread(obj, field, value) ==
    [f \in DOMAIN obj \cup {field} |-> IF f = field THEN value ELSE obj[f]]

\* Shape tests of @lodestar/api: the object has the field.
isExecutionPayloadAndBlobsBundle(data) == "blobsBundle" \in DOMAIN data
isSignedBlindedBlockContents(contents) == "signedBlindedBlobSidecars" \in DOMAIN contents

\* Results of an async call: a value, or a thrown Error.
Return(value) == [status |-> "ok", value |-> value]
Throw(message) == [status |-> "error", message |-> message]

\* The signed blinded blocks a request may carry.
SignedBlindedBlocks ==
    { [signature |-> sig,
       message |-> [slot |-> 33, proposerIndex |-> 7,
                    parentRoot |-> "parentRoot", stateRoot |-> "stateRoot",
                    body |-> [randaoReveal |-> "randao", graffiti |-> graffiti,
                              executionPayloadHeader |->
                                  [blockHash |-> "blockHash",
                                   transactionsRoot |-> hashTreeRoot(txs)]]]]
      : sig \in {"sigBlockA", "sigBlockB"},
        graffiti \in {"graffitiA", "graffitiB"},
        txs \in TransactionLists }

\* The signed blinded blob sidecars a request may carry.
SignedBlindedBlobSidecar ==
    { [signature |-> "sigBlobA",
       message |-> [index |-> 0, blockRoot |-> "blockRoot", blobRoot |-> "rootA"]],
      [signature |-> "sigBlobB",
       message |-> [index |-> 1, blockRoot |-> "blockRoot", blobRoot |-> "rootB"]] }

\* A request: a bare signed blinded block (forks before blobs), or block
\* contents with the list of signed blinded blob sidecars.
SubmitRequests ==
    SignedBlindedBlocks
    \cup { [signedBlindedBlock |-> b, signedBlindedBlobSidecars |-> s]
           : b \in SignedBlindedBlocks,
             s \in SeqUpTo(SignedBlindedBlobSidecar, MaxBlobs) }

ExecutionPayloads ==
    { [blockHash |-> "blockHash", transactions |-> txs] : txs \in TransactionLists }

Blobs == {"blobX", "blobY"}

\* The relay's answer: a bare execution payload, or a payload with a bundle.
SubmitResponses ==
    ExecutionPayloads
    \cup { [executionPayload |-> p, blobsBundle |-> [blobs |-> bs]]
           : p \in ExecutionPayloads, bs \in SeqUpTo(Blobs, MaxBlobs) }

\* The relay call failed: ApiError.assert throws.
ApiFailure == [apiError |-> TRUE]

\* Faulty variant: the revealed payload is trusted without the comparison.
validTransactionsRootMutant(signedBlindedBlock, executionPayload) == TRUE

\* expectedTransactionsRoot against actualTransactionsRoot
validTransactionsRoot(signedBlindedBlock, executionPayload) ==
    byteArrayEquals(
        signedBlindedBlock.message.body.executionPayloadHeader.transactionsRoot,
        hashTreeRoot(executionPayload.transactions))

\* Faulty variant: the body is rebuilt without spreading the blinded body.
reconstructSignedBlockMutant(signedBlindedBlock, executionPayload) ==
    Spread(signedBlindedBlock, "message",
           Spread(signedBlindedBlock.message, "body",
                  [executionPayload |-> executionPayload]))

\* The signed block: the blinded block with executionPayload put in its body.
reconstructSignedBlock(signedBlindedBlock, executionPayload) ==
    Spread(signedBlindedBlock, "message",
           Spread(signedBlindedBlock.message, "body",
                  Spread(signedBlindedBlock.message.body,
                         "executionPayload", executionPayload)))

\* Faulty variant: only a bundle with too few blobs is refused.
invalidNumberOfBlobsMutant(signedBlindedBlobSidecars, blobsBundle) ==
    Len(signedBlindedBlobSidecars) > Len(blobsBundle.blobs)

\* signedBlindedBlobSidecars.length !== blobsBundle.blobs.length
invalidNumberOfBlobs(signedBlindedBlobSidecars, blobsBundle) ==
    Len(signedBlindedBlobSidecars) # Len(blobsBundle.blobs)

\* Faulty variant: the blobs are taken from the end of the bundle.
reconstructBlobSidecarMutant(signedBlindedBlobSidecars, blobsBundle, i) ==
    [signature |-> signedBlindedBlobSidecars[i].signature,
     message |-> Spread(signedBlindedBlobSidecars[i].message, "blob",
                        blobsBundle.blobs[Len(blobsBundle.blobs) + 1 - i])]

\* The i-th signed blob sidecar: the blinded one with the bundle's i-th blob.
reconstructBlobSidecar(signedBlindedBlobSidecars, blobsBundle, i) ==
    [signature |-> signedBlindedBlobSidecars[i].signature,
     message |-> Spread(signedBlindedBlobSidecars[i].message, "blob",
                        blobsBundle.blobs[i])]

\* The body of submitBlindedBlock after the relay answered with data.
submitBlindedBlock(request, data) ==
    LET executionPayload ==
            IF isExecutionPayloadAndBlobsBundle(data)
            THEN data.executionPayload ELSE data
        blobsBundle ==
            IF isExecutionPayloadAndBlobsBundle(data)
            THEN data.blobsBundle ELSE NULL
        signedBlindedBlock ==
            IF isSignedBlindedBlockContents(request)
            THEN request.signedBlindedBlock ELSE request
        \* signedBlindedBlobSidecars !== null
        haveSidecars == isSignedBlindedBlockContents(request)
        signedBlindedBlobSidecars == request.signedBlindedBlobSidecars
        signedBlock == reconstructSignedBlock(signedBlindedBlock, executionPayload)
    IN  IF ~validTransactionsRoot(signedBlindedBlock, executionPayload)
        THEN Throw("Invalid transactionsRoot of the builder payload")
        ELSE IF haveSidecars
        THEN IF blobsBundle = NULL
             THEN Throw("Invalid Builder response with missing blobsBundle for deneb+ forks")
             ELSE IF invalidNumberOfBlobs(signedBlindedBlobSidecars, blobsBundle)
             THEN Throw("Invalid number of blobs returned by builder")
             ELSE Return(
                    [signedBlock |-> signedBlock,
                     signedBlobSidecars |->
                         [i \in 1..Len(signedBlindedBlobSidecars) |->
                             reconstructBlobSidecar(signedBlindedBlobSidecars,
                                                    blobsBundle, i)]])
        ELSE IF blobsBundle # NULL
             THEN Throw("Invalid Builder response with blobsBundle for deneb- forks")
             ELSE Return(signedBlock)

RevealIdle ==
    /\ submitPc = "unused"
    /\ signedBlindedBlockOrContents = NULL
    /\ submitData = NULL
    /\ submitResult = NULL

\* await this.api.submitBlindedBlock(...) fails: ApiError.assert throws.
SubmitBlindedBlockApiFails ==
    /\ submitPc = "idle"
    /\ submitPc' = "done"
    /\ submitData' = ApiFailure
    /\ submitResult' = Throw("execution.builder.submitBlindedBlock")
    /\ UNCHANGED signedBlindedBlockOrContents
    /\ UNCHANGED <<arbVars, dutyVars, builderVars, syncVars>>

\* The relay answers with data: the rest of submitBlindedBlock runs.
SubmitBlindedBlockResponds ==
    /\ submitPc = "idle"
    /\ \E data \in SubmitResponses :
        /\ submitData' = data
        /\ submitResult' = submitBlindedBlock(signedBlindedBlockOrContents, data)
    /\ submitPc' = "done"
    /\ UNCHANGED signedBlindedBlockOrContents
    /\ UNCHANGED <<arbVars, dutyVars, builderVars, syncVars>>

(***************************************************************************)
(* 2. produceBlockV3: the arbitration between the engine's full block and  *)
(* the builder's blinded block (section 4.2 of the specification; the      *)
(* repository's test of it is test/unit/.../produceBlockV3).               *)
(***************************************************************************)

BuilderSelection == {"MaxProfit", "BuilderAlways", "BuilderOnly", "ExecutionOnly"}

\* executionPayloadValue: an unsigned integer (a bigint in the source).
PayloadValues == 0..MaxValue

\* The states of one production call.
NotCalled == [state |-> "notCalled"]
Pending == [state |-> "pending"]
Rejected == [state |-> "rejected"]
Resolved(value) == [state |-> "resolved", executionPayloadValue |-> value]

\* Decision table, column "Calls engine?".
callsEngine(selection) == selection # "BuilderOnly"

\* Faulty variant: the builder is called under every policy.
callsBuilderMutant(selection) == TRUE

\* Decision table, column "Calls builder?".
callsBuilder(selection) == selection # "ExecutionOnly"

\* Faulty variant: the decision is taken as soon as one call has ended.
arbitrationReadyMutant(engine, builder) ==
    engine.state \in {"resolved", "rejected"} \/ builder.state \in {"resolved", "rejected"}

\* The decision is taken when no call that was issued is still pending.
arbitrationReady(engine, builder) ==
    engine.state # "pending" /\ builder.state # "pending"

\* Faulty variant: a tie goes to the builder.
selectSourceTieMutant(selection, engine, builder) ==
    IF engine.state = "resolved" /\ builder.state = "resolved"
    THEN IF selection = "BuilderAlways" THEN "builder"
         ELSE IF builder.executionPayloadValue >= engine.executionPayloadValue
              THEN "builder" ELSE "engine"
    ELSE IF engine.state = "resolved" THEN "engine"
    ELSE IF builder.state = "resolved" THEN "builder"
    ELSE "none"

\* Faulty variant: BuilderAlways compares the values as MaxProfit does.
selectSourceValueMutant(selection, engine, builder) ==
    IF engine.state = "resolved" /\ builder.state = "resolved"
    THEN IF builder.executionPayloadValue > engine.executionPayloadValue
         THEN "builder" ELSE "engine"
    ELSE IF engine.state = "resolved" THEN "engine"
    ELSE IF builder.state = "resolved" THEN "builder"
    ELSE "none"

\* Faulty variant: the failure of one call fails the arbitration.
selectSourceEscalateMutant(selection, engine, builder) ==
    IF engine.state = "resolved" /\ builder.state = "resolved"
    THEN IF selection = "BuilderAlways" THEN "builder"
         ELSE IF builder.executionPayloadValue > engine.executionPayloadValue
              THEN "builder" ELSE "engine"
    ELSE IF engine.state = "rejected" \/ builder.state = "rejected" THEN "none"
    ELSE IF engine.state = "resolved" THEN "engine"
    ELSE IF builder.state = "resolved" THEN "builder"
    ELSE "none"

\* Decision table: the source selected from the two calls' outcomes, or
\* "none" when no call succeeded.
selectSource(selection, engine, builder) ==
    IF engine.state = "resolved" /\ builder.state = "resolved"
    THEN IF selection = "BuilderAlways" THEN "builder"
         ELSE IF builder.executionPayloadValue > engine.executionPayloadValue
              THEN "builder" ELSE "engine"
    ELSE IF engine.state = "resolved" THEN "engine"
    ELSE IF builder.state = "resolved" THEN "builder"
    ELSE "none"

\* What produceBlockV3 answers: the selected candidate, or NoCandidateProduced.
produceBlockV3Response(selection, engine, builder) ==
    LET source == selectSource(selection, engine, builder)
    IN  IF source = "engine"
        THEN Return([source |-> "engine", executionPayloadBlinded |-> FALSE,
                     executionPayloadValue |-> engine.executionPayloadValue])
        ELSE IF source = "builder"
        THEN Return([source |-> "builder", executionPayloadBlinded |-> TRUE,
                     executionPayloadValue |-> builder.executionPayloadValue])
        ELSE Throw("NoCandidateProduced")

\* The rows of the repository's test: selection, builder value, engine value
\* (a value of -1: the call throws), and the source the test expects.
testCases ==
    << <<"MaxProfit", 1, 0, "builder">>,
       <<"MaxProfit", 1, 2, "engine">>,
       <<"MaxProfit", -1, 0, "engine">>,
       <<"MaxProfit", 0, -1, "builder">>,
       <<"BuilderAlways", 1, 2, "builder">>,
       <<"BuilderAlways", 1, 0, "builder">>,
       <<"BuilderAlways", -1, 0, "engine">>,
       <<"BuilderAlways", 0, -1, "builder">>,
       <<"BuilderOnly", 0, 2, "builder">>,
       <<"ExecutionOnly", 2, 0, "engine">> >>

\* The outcome of a call of the test: not issued, thrown, or its value.
testOutcome(called, value) ==
    IF ~called THEN NotCalled ELSE IF value < 0 THEN Rejected ELSE Resolved(value)

\* The decision table selects what the test expects, in every row.
testCasesAgree ==
    \A k \in 1..Len(testCases) :
        LET row == testCases[k]
        IN  selectSource(row[1],
                         testOutcome(callsEngine(row[1]), row[3]),
                         testOutcome(callsBuilder(row[1]), row[2])) = row[4]

ArbIdle ==
    /\ arbPc = "unused"
    /\ builderSelection = "MaxProfit"
    /\ fullBlock = NotCalled
    /\ blindedBlock = NotCalled
    /\ produceBlockCallCount = 0
    /\ produceBlindedBlockCallCount = 0
    /\ completionOrder = <<>>
    /\ produceBlockV3Result = NULL

InitArb ==
    /\ arbPc = "start"
    /\ builderSelection \in BuilderSelection
    /\ fullBlock = NotCalled
    /\ blindedBlock = NotCalled
    /\ produceBlockCallCount = 0
    /\ produceBlindedBlockCallCount = 0
    /\ completionOrder = <<>>
    /\ produceBlockV3Result = NULL

\* produceBlockV3 is called: the calls the policy requires are issued
\* together, before either is awaited.
ArbStart ==
    /\ arbPc = "start"
    /\ arbPc' = "waiting"
    /\ IF callsEngine(builderSelection)
       THEN fullBlock' = Pending /\ produceBlockCallCount' = produceBlockCallCount + 1
       ELSE UNCHANGED <<fullBlock, produceBlockCallCount>>
    /\ IF callsBuilder(builderSelection)
       THEN /\ blindedBlock' = Pending
            /\ produceBlindedBlockCallCount' = produceBlindedBlockCallCount + 1
       ELSE UNCHANGED <<blindedBlock, produceBlindedBlockCallCount>>
    /\ UNCHANGED <<builderSelection, completionOrder, produceBlockV3Result>>
    /\ UNCHANGED <<revealVars, dutyVars, builderVars, syncVars>>

\* The engine's produceBlock resolves with a block and its value.
EngineResolves ==
    /\ fullBlock = Pending
    /\ \E value \in PayloadValues : fullBlock' = Resolved(value)
    /\ completionOrder' = Append(completionOrder, "engine")
    /\ UNCHANGED <<arbPc, builderSelection, blindedBlock, produceBlockCallCount,
                   produceBlindedBlockCallCount, produceBlockV3Result>>
    /\ UNCHANGED <<revealVars, dutyVars, builderVars, syncVars>>

\* The engine's produceBlock throws.
EngineRejects ==
    /\ fullBlock = Pending
    /\ fullBlock' = Rejected
    /\ completionOrder' = Append(completionOrder, "engine")
    /\ UNCHANGED <<arbPc, builderSelection, blindedBlock, produceBlockCallCount,
                   produceBlindedBlockCallCount, produceBlockV3Result>>
    /\ UNCHANGED <<revealVars, dutyVars, builderVars, syncVars>>

\* The builder's produceBlindedBlock resolves with a blinded block and its value.
BuilderResolves ==
    /\ blindedBlock = Pending
    /\ \E value \in PayloadValues : blindedBlock' = Resolved(value)
    /\ completionOrder' = Append(completionOrder, "builder")
    /\ UNCHANGED <<arbPc, builderSelection, fullBlock, produceBlockCallCount,
                   produceBlindedBlockCallCount, produceBlockV3Result>>
    /\ UNCHANGED <<revealVars, dutyVars, builderVars, syncVars>>

\* The builder's produceBlindedBlock throws.
BuilderRejects ==
    /\ blindedBlock = Pending
    /\ blindedBlock' = Rejected
    /\ completionOrder' = Append(completionOrder, "builder")
    /\ UNCHANGED <<arbPc, builderSelection, fullBlock, produceBlockCallCount,
                   produceBlindedBlockCallCount, produceBlockV3Result>>
    /\ UNCHANGED <<revealVars, dutyVars, builderVars, syncVars>>

\* The join of the issued calls: the decision is taken and returned.
ArbDecide ==
    /\ arbPc = "waiting"
    /\ arbitrationReady(fullBlock, blindedBlock)
    /\ arbPc' = "done"
    /\ produceBlockV3Result' =
           produceBlockV3Response(builderSelection, fullBlock, blindedBlock)
    /\ UNCHANGED <<builderSelection, fullBlock, blindedBlock, produceBlockCallCount,
                   produceBlindedBlockCallCount, completionOrder>>
    /\ UNCHANGED <<revealVars, dutyVars, builderVars, syncVars>>

(***************************************************************************)
(* 3. BlockProposingService: notifyBlockProductionFn and                   *)
(* createAndPublishBlock.                                                  *)
(***************************************************************************)

GENESIS_SLOT == 0

\* null or undefined where the source's type is a list (a list, so that it
\* compares with lists; no list of the program holds NULL).
NULL_LIST == <<NULL>>

\* The public keys of the validators (4 bytes stand for the 48 of a key).
Pubkeys == {<<171, 1, 2, 3>>, <<171, 1, 2, 4>>}

\* The proposers of a notification: no key twice, in the order of the keys.
ProposerLists ==
    {<<>>} \cup {<<a>> : a \in Pubkeys}
           \cup {pair \in Pubkeys \X Pubkeys : pair[1][4] < pair[2][4]}

HexDigits == <<"0", "1", "2", "3", "4", "5", "6", "7",
               "8", "9", "a", "b", "c", "d", "e", "f">>

\* toHexString: "0x" and two hexadecimal digits for every byte.
toHexString(bytes) ==
    [i \in 1..(2 * Len(bytes) + 2) |->
        IF i = 1 THEN "0"
        ELSE IF i = 2 THEN "x"
        ELSE LET b == bytes[(i - 1) \div 2]
             IN  IF i % 2 = 1 THEN HexDigits[(b \div 16) + 1]
                              ELSE HexDigits[(b % 16) + 1]]

\* prettyBytes: the first six characters, an ellipsis, the last four.
prettyBytes(str) ==
    SubSeq(str, 1, 6) \o <<"...">> \o SubSeq(str, Len(str) - 3, Len(str))

\* logCtx = {slot, validator: prettyBytes(pubkeyHex)}
logCtx(pubkey, slot) ==
    [slot |-> slot, validator |-> prettyBytes(toHexString(pubkey))]

\* The blocks and blob sidecars the beacon node produces for a slot.
FullBlock(slot) == [slot |-> slot, body |-> [executionPayload |-> "payload"]]
\* The transactions a builder's header commits to.
CommittedTransactions == <<0, 1>>
BlindedBlock(slot) ==
    [slot |-> slot,
     body |-> [executionPayloadHeader |->
                   [blockHash |-> "blockHash",
                    transactionsRoot |-> hashTreeRoot(CommittedTransactions)]]]
BlobSidecars(n) == [i \in 1..n |-> [index |-> i - 1, blob |-> "blob"]]
BlindedBlobSidecars(n) == [i \in 1..n |-> [index |-> i - 1, blobRoot |-> "blobRoot"]]

\* enum ForkName, and the fork predicates as the source computes them.
ForkNames == {"phase0", "altair", "bellatrix", "capella", "deneb", "verge"}
isForkLightClient(fork) == fork # "phase0"
isForkExecution(fork) == isForkLightClient(fork) /\ fork # "altair"
isForkWithdrawals(fork) == isForkExecution(fork) /\ fork # "bellatrix"
isForkBlobs(fork) == isForkWithdrawals(fork) /\ fork # "verge"
\* type ForkBlobs = Exclude<ForkWithdrawals, ForkName.capella>
ForkBlobs == {fork \in ForkNames : isForkWithdrawals(fork)} \ {"capella"}

\* Shape tests of @lodestar/types and @lodestar/api: the object has the field.
isBlindedBeaconBlock(block) == "executionPayloadHeader" \in DOMAIN block.body
isBlindedBlockContents(data) == "blindedBlock" \in DOMAIN data
isBlockContents(data) == "blobSidecars" \in DOMAIN data

\* The answers of api.validator.produceBlockV3 for the candidate the
\* arbitration selected: before the blob fork the bare block, from the blob
\* fork on the block with its blob sidecars (FullOrBlindedBlockWithContents).
ProduceBlockV3Responses(slot, candidate) ==
    LET meta(version, data) ==
            [ok |-> TRUE,
             response |-> [version |-> version, data |-> data,
                           executionPayloadBlinded |-> candidate.executionPayloadBlinded,
                           executionPayloadValue |-> candidate.executionPayloadValue]]
    IN  IF forkName = "capella"
        THEN IF candidate.executionPayloadBlinded
             THEN {meta("capella", BlindedBlock(slot))}
             ELSE {meta("capella", FullBlock(slot))}
        ELSE IF candidate.executionPayloadBlinded
             THEN {meta("deneb", [blindedBlock |-> BlindedBlock(slot),
                                  blindedBlobSidecars |-> BlindedBlobSidecars(n)])
                   : n \in 0..MaxBlobs}
             ELSE {meta("deneb", [block |-> FullBlock(slot),
                                  blobSidecars |-> BlobSidecars(n)])
                   : n \in 0..MaxBlobs}

\* The answer of a call the beacon node refused or could not serve.
ApiErrorResponse == [ok |-> FALSE]

\* Faulty variant: the answer is not asserted, and a failed call yields an
\* empty candidate instead of an error.
produceBlockWrapperMutant(res) ==
    IF ~res.ok
    THEN Return([block |-> NULL, blobs |-> NULL_LIST, version |-> "capella",
                 executionPayloadBlinded |-> FALSE, source |-> "engine"])
    ELSE LET response == res.response
             source == IF response.executionPayloadBlinded THEN "builder" ELSE "engine"
         IN  Return([block |-> response.data, blobs |-> NULL_LIST,
                     version |-> response.version,
                     executionPayloadBlinded |-> response.executionPayloadBlinded,
                     source |-> source])

\* Faulty variant: the sidecars of a blinded answer are dropped.
produceBlockWrapperBlobsMutant(res) ==
    IF ~res.ok
    THEN Throw("Failed to produce block: validator.produceBlockV2")
    ELSE LET response == res.response
             source == IF response.executionPayloadBlinded THEN "builder" ELSE "engine"
         IN  IF response.executionPayloadBlinded
             THEN Return([block |-> IF isBlindedBlockContents(response.data)
                                    THEN response.data.blindedBlock
                                    ELSE response.data,
                          blobs |-> NULL_LIST,
                          version |-> response.version,
                          executionPayloadBlinded |-> TRUE,
                          source |-> source])
             ELSE IF isBlockContents(response.data)
                  THEN Return([block |-> response.data.block,
                               blobs |-> response.data.blobSidecars,
                               version |-> response.version,
                               executionPayloadBlinded |-> FALSE,
                               source |-> source])
                  ELSE Return([block |-> response.data,
                               blobs |-> NULL_LIST,
                               version |-> response.version,
                               executionPayloadBlinded |-> FALSE,
                               source |-> source])

\* produceBlockWrapper: ApiError.assert on the answer, then the answer's
\* block and blobs as one FullOrBlindedBlockWithContents.
produceBlockWrapper(res) ==
    IF ~res.ok
    THEN Throw("Failed to produce block: validator.produceBlockV2")
    ELSE LET response == res.response
             \* debugLogCtx.source
             source == IF response.executionPayloadBlinded THEN "builder" ELSE "engine"
         IN  IF response.executionPayloadBlinded
             THEN IF isBlindedBlockContents(response.data)
                  THEN Return([block |-> response.data.blindedBlock,
                               blobs |-> response.data.blindedBlobSidecars,
                               version |-> response.version,
                               executionPayloadBlinded |-> TRUE,
                               source |-> source])
                  ELSE Return([block |-> response.data,
                               blobs |-> NULL_LIST,
                               version |-> response.version,
                               executionPayloadBlinded |-> TRUE,
                               source |-> source])
             ELSE IF isBlockContents(response.data)
                  THEN Return([block |-> response.data.block,
                               blobs |-> response.data.blobSidecars,
                               version |-> response.version,
                               executionPayloadBlinded |-> FALSE,
                               source |-> source])
                  ELSE Return([block |-> response.data,
                               blobs |-> NULL_LIST,
                               version |-> response.version,
                               executionPayloadBlinded |-> FALSE,
                               source |-> source])

\* validatorStore.signBlock / signBlob: the message under the key's signature.
signed(pubkey, message) == [message |-> message, signature |-> <<"sig", pubkey>>]

\* A createAndPublishBlock that has just been called: it runs up to its
\* first await, the call of validatorStore.signRandao.
newTask(pubkey, slot) ==
    [pubkey |-> pubkey,
     slot |-> slot,
     pc |-> "signRandao",
     promise |-> "pending",
     signRandaoCalls |-> 1,
     produceBlockV3Calls |-> 0,
     signBlockCalls |-> 0,
     signBlobCalls |-> 0,
     publishBlockCalls |-> 0,
     publishBlindedBlockCalls |-> 0,
     noSourceProduced |-> FALSE,
     blockContents |-> NULL,
     signBlock |-> "notCalled",
     signBlobs |-> <<>>,
     published |-> NULL,
     submitBlindedBlockCalls |-> 0,
     revealed |-> NULL,
     network |-> NULL,
     logs |-> {}]

\* Faulty variant: the error is not caught, and the promise of
\* createAndPublishBlock rejects.
catchErrorMutant(task, slot, error) ==
    [task EXCEPT !.pc = "done", !.promise = "rejected"]

\* catch (e): the error is logged with logCtx and the promise of
\* createAndPublishBlock resolves.
catchError(task, slot, error) ==
    [task EXCEPT
        !.pc = "done",
        !.promise = "fulfilled",
        !.logs = @ \cup {[level |-> "error", message |-> "Error proposing block",
                          ctx |-> logCtx(task.pubkey, slot), error |-> error]}]

\* After production: the block's signature and every blob's signature are
\* requested, all before any is awaited.
startSigning(task, blockContents) ==
    LET blobs == blockContents.blobs
        n == IF blobs # NULL_LIST THEN Len(blobs) ELSE 0
    IN  [task EXCEPT
            !.pc = "sign",
            !.blockContents = blockContents,
            !.signBlock = "pending",
            !.signBlockCalls = @ + 1,
            !.signBlobs = [i \in 1..n |-> "pending"],
            !.signBlobCalls = @ + n,
            !.logs = @ \cup {[level |-> "debug", message |-> "Produced block"]}]

\* Faulty variant: only signedBlockPromise is awaited before publishing.
allSignedMutant(task) == task.signBlock = "resolved"

\* All of the task's signatures have resolved (signBlobs is empty when
\* signedBlobPromises is undefined).
allSigned(task) ==
    /\ task.signBlock = "resolved"
    /\ \A i \in 1..Len(task.signBlobs) : task.signBlobs[i] = "resolved"

\* Faulty variant: every signed block is sent through publishBlock.
publishBlockWrapperMutant(signedBlock, signedBlobSidecars) ==
    IF signedBlobSidecars = NULL_LIST
    THEN [api |-> "publishBlock", arg |-> signedBlock]
    ELSE [api |-> "publishBlock",
          arg |-> [signedBlock |-> signedBlock,
                   signedBlobSidecars |-> signedBlobSidecars]]

\* publishBlockWrapper up to its await: the call it makes to the beacon node.
publishBlockWrapper(signedBlock, signedBlobSidecars) ==
    IF signedBlobSidecars = NULL_LIST
    THEN IF isBlindedBeaconBlock(signedBlock.message)
         THEN [api |-> "publishBlindedBlock", arg |-> signedBlock]
         ELSE [api |-> "publishBlock", arg |-> signedBlock]
    ELSE IF isBlindedBeaconBlock(signedBlock.message)
         THEN [api |-> "publishBlindedBlock",
               arg |-> [signedBlindedBlock |-> signedBlock,
                        signedBlindedBlobSidecars |-> signedBlobSidecars]]
         ELSE [api |-> "publishBlock",
               arg |-> [signedBlock |-> signedBlock,
                        signedBlobSidecars |-> signedBlobSidecars]]

\* After Promise.all of the signatures: the publish call is made.
startPublishing(task) ==
    LET signedBlock == signed(task.pubkey, task.blockContents.block)
        signedBlobs ==
            IF task.blockContents.blobs # NULL_LIST
            THEN [i \in 1..Len(task.signBlobs) |->
                      signed(task.pubkey, task.blockContents.blobs[i])]
            ELSE NULL_LIST
        call == publishBlockWrapper(signedBlock, signedBlobs)
    IN  [task EXCEPT
            !.pc = "publish",
            !.published = call,
            !.publishBlockCalls = @ + (IF call.api = "publishBlock" THEN 1 ELSE 0),
            !.publishBlindedBlockCalls =
                @ + (IF call.api = "publishBlindedBlock" THEN 1 ELSE 0)]

DutyIdle ==
    /\ dutyPc = "unused"
    /\ dutySlot = 0
    /\ tasks = <<>>
    /\ serviceLogs = {}
    /\ dutyProposers = <<>>
    /\ forkName = "phase0"
    /\ dutiesLeft = 0
    /\ abortSignal = FALSE

\* The behaviours followed: one notification at the blob fork, or up to
\* MaxNotifications notifications at the fork before it.
InitDuty ==
    /\ dutyPc = "idle"
    /\ dutySlot = 0
    /\ tasks = <<>>
    /\ serviceLogs = {}
    /\ dutyProposers = <<>>
    /\ forkName \in {"capella", "deneb"}
    /\ dutiesLeft = IF forkName = "deneb" THEN 1 ELSE MaxNotifications
    /\ abortSignal = FALSE

\* Faulty variant: a duty at the genesis slot is produced.
beforeOrAtGenesisSlotMutant(slot) == slot < GENESIS_SLOT

\* if (slot <= GENESIS_SLOT)
beforeOrAtGenesisSlot(slot) == slot <= GENESIS_SLOT

\* Faulty variant: only the first proposer's block is created.
createAndPublishBlocksMutant(slot, proposers) ==
    [i \in 1..(IF Len(proposers) > 1 THEN 1 ELSE Len(proposers)) |->
        newTask(proposers[i], slot)]

\* proposers.map((pubkey) => this.createAndPublishBlock(pubkey, slot)): one
\* task per proposer listed, each run up to its first await.
createAndPublishBlocks(slot, proposers) ==
    [i \in 1..Len(proposers) |-> newTask(proposers[i], slot)]

\* Promise.all(...).catch((e) => logger.error("Error on block duties")): runs
\* when the promise of a createAndPublishBlock rejects.
promiseAllCatch(task) ==
    IF task.promise = "rejected"
    THEN {[level |-> "error", message |-> "Error on block duties",
           ctx |-> [slot |-> task.slot]]}
    ELSE {}

\* The tasks the model follows: no more than there are validators.
MaxTasks == Cardinality(Pubkeys)

\* notifyBlockProductionFn(slot, proposers).  The function keeps no record
\* of its calls and "may run more than once at a time": a notification can
\* arrive whatever the tasks of earlier notifications are doing.
notifyBlockProductionFn(slot, proposers) ==
    /\ dutyPc \in {"idle", "notified"}
    /\ dutiesLeft > 0
    /\ dutiesLeft' = dutiesLeft - 1
    /\ UNCHANGED <<forkName, abortSignal>>
    /\ dutySlot' = slot
    /\ dutyProposers' = proposers
    /\ IF beforeOrAtGenesisSlot(slot)
       THEN /\ serviceLogs' = serviceLogs \cup
                   {[level |-> "debug",
                     message |-> "Not producing block before or at genesis slot"]}
            /\ tasks' = tasks
       ELSE /\ serviceLogs' = serviceLogs \cup
                   IF Len(proposers) > 1
                   THEN {[level |-> "warn", message |-> "Multiple block proposers",
                          ctx |-> [slot |-> slot, count |-> Len(proposers)]]}
                   ELSE {}
            /\ tasks' = tasks \o createAndPublishBlocks(slot, proposers)
    /\ dutyPc' = "notified"
    /\ UNCHANGED <<revealVars, arbVars, builderVars, syncVars>>

\* The scheduler delivers a notification for any slot and any list of
\* proposers.
NotifyBlockProduction ==
    \E slot \in 0..MaxSlot, proposers \in ProposerLists :
        /\ Len(tasks) + Len(proposers) <= MaxTasks
        /\ notifyBlockProductionFn(slot, proposers)

\* A slot with several proposers: the first notification lists every
\* validator for a slot after genesis, each later one lists one validator
\* for the same slot.
SiblingSlot == GENESIS_SLOT + 1
SiblingProposers ==
    IF tasks = <<>>
    THEN {pair \in Pubkeys \X Pubkeys : pair[1][4] < pair[2][4]}
    ELSE {<<a>> : a \in {b \in Pubkeys : \A c \in Pubkeys : b[4] <= c[4]}}

\* The scheduler delivers the notifications of a slot with several
\* proposers.
NotifySiblings ==
    \E proposers \in SiblingProposers :
        notifyBlockProductionFn(SiblingSlot, proposers)

\* signRandao resolves: the task goes on to call produceBlockV3.
SignRandaoResolves ==
    \E i \in 1..Len(tasks) :
        /\ tasks[i].pc = "signRandao"
        /\ tasks' = [tasks EXCEPT ![i] =
                        [@ EXCEPT !.pc = "produceBlock",
                                  !.produceBlockV3Calls = @ + 1,
                                  !.logs = @ \cup {[level |-> "debug",
                                                    message |-> "Producing block"]}]]
        /\ serviceLogs' = serviceLogs \cup promiseAllCatch(tasks'[i])
        /\ UNCHANGED <<dutyPc, dutySlot, dutyProposers, forkName, dutiesLeft, abortSignal,
                     revealVars, arbVars, builderVars, syncVars>>

\* signRandao throws.
SignRandaoRejects ==
    \E i \in 1..Len(tasks) :
        /\ tasks[i].pc = "signRandao"
        /\ tasks' = [tasks EXCEPT ![i] = catchError(@, tasks[i].slot, "signRandao")]
        /\ serviceLogs' = serviceLogs \cup promiseAllCatch(tasks'[i])
        /\ UNCHANGED <<dutyPc, dutySlot, dutyProposers, forkName, dutiesLeft, abortSignal,
                     revealVars, arbVars, builderVars, syncVars>>

\* The outcomes a production call can have for the arbitration.
ProductionOutcomes(called) ==
    IF called THEN {Rejected} \cup {Resolved(v) : v \in PayloadValues} ELSE {NotCalled}

\* What the beacon node may answer to produceBlockV3 for a slot: for every
\* selection and every outcome of the calls the selection issues, the
\* answers for the arbitration's result, and whether no source produced.
ProductionAnswers(slot) ==
    UNION { LET arbitration == produceBlockV3Response(c[1], c[2], c[3])
                noSource == c[2].state # "resolved" /\ c[3].state # "resolved"
            IN  {[res |-> res, noSource |-> noSource]
                 : res \in IF arbitration.status = "ok"
                           THEN ProduceBlockV3Responses(slot, arbitration.value)
                           ELSE {ApiErrorResponse}}
            : c \in UNION {{<<selection, engine, builder>>
                             : engine \in ProductionOutcomes(callsEngine(selection)),
                               builder \in ProductionOutcomes(callsBuilder(selection))}
                            : selection \in BuilderSelection} }

\* The beacon node answers produceBlockV3 after arbitrating between the
\* engine and the builder under the validator's selection; the rest of the
\* try block runs up to the await of the signatures.
ProduceBlockV3Responds ==
    \E i \in 1..Len(tasks) :
        /\ tasks[i].pc = "produceBlock"
        /\ \E answer \in ProductionAnswers(tasks[i].slot) :
            LET blockContents == produceBlockWrapper(answer.res)
                task == [tasks[i] EXCEPT !.noSourceProduced = answer.noSource]
            IN  tasks' = [tasks EXCEPT ![i] =
                            IF blockContents.status = "error"
                            THEN catchError(task, tasks[i].slot,
                                            "Failed to produce block")
                            ELSE startSigning(task, blockContents.value)]
        /\ serviceLogs' = serviceLogs \cup promiseAllCatch(tasks'[i])
        /\ UNCHANGED <<dutyPc, dutySlot, dutyProposers, forkName, dutiesLeft, abortSignal,
                     revealVars, arbVars, builderVars, syncVars>>

\* The produceBlockV3 request itself fails (the node is unreachable or
\* refuses the call): ApiError.assert throws.
ProduceBlockV3Fails ==
    \E i \in 1..Len(tasks) :
        /\ tasks[i].pc = "produceBlock"
        /\ LET blockContents == produceBlockWrapper(ApiErrorResponse)
           IN  tasks' = [tasks EXCEPT ![i] =
                            IF blockContents.status = "error"
                            THEN catchError(@, tasks[i].slot, "Failed to produce block")
                            ELSE startSigning(@, blockContents.value)]
        /\ serviceLogs' = serviceLogs \cup promiseAllCatch(tasks'[i])
        /\ UNCHANGED <<dutyPc, dutySlot, dutyProposers, forkName, dutiesLeft, abortSignal,
                     revealVars, arbVars, builderVars, syncVars>>

\* signBlock resolves; when it is the last signature, Promise.all resolves
\* and the publish call is made.
SignBlockResolves ==
    \E i \in 1..Len(tasks) :
        /\ tasks[i].pc = "sign"
        /\ tasks[i].signBlock = "pending"
        /\ LET task == [tasks[i] EXCEPT !.signBlock = "resolved"]
           IN  tasks' = [tasks EXCEPT ![i] =
                            IF allSigned(task) THEN startPublishing(task) ELSE task]
        /\ serviceLogs' = serviceLogs \cup promiseAllCatch(tasks'[i])
        /\ UNCHANGED <<dutyPc, dutySlot, dutyProposers, forkName, dutiesLeft, abortSignal,
                     revealVars, arbVars, builderVars, syncVars>>

\* signBlock throws: Promise.all (or the await of signBlock) rejects.
SignBlockRejects ==
    \E i \in 1..Len(tasks) :
        /\ tasks[i].pc = "sign"
        /\ tasks[i].signBlock = "pending"
        /\ tasks' = [tasks EXCEPT ![i] =
                        catchError([@ EXCEPT !.signBlock = "rejected"],
                                   tasks[i].slot, "signBlock")]
        /\ serviceLogs' = serviceLogs \cup promiseAllCatch(tasks'[i])
        /\ UNCHANGED <<dutyPc, dutySlot, dutyProposers, forkName, dutiesLeft, abortSignal,
                     revealVars, arbVars, builderVars, syncVars>>

\* signBlob of one sidecar resolves; when it is the last signature,
\* Promise.all resolves and the publish call is made.
SignBlobResolves ==
    \E i \in 1..Len(tasks) :
        /\ tasks[i].pc = "sign"
        /\ \E k \in 1..Len(tasks[i].signBlobs) :
            /\ tasks[i].signBlobs[k] = "pending"
            /\ LET task == [tasks[i] EXCEPT !.signBlobs[k] = "resolved"]
               IN  tasks' = [tasks EXCEPT ![i] =
                                IF allSigned(task) THEN startPublishing(task) ELSE task]
        /\ serviceLogs' = serviceLogs \cup promiseAllCatch(tasks'[i])
        /\ UNCHANGED <<dutyPc, dutySlot, dutyProposers, forkName, dutiesLeft, abortSignal,
                     revealVars, arbVars, builderVars, syncVars>>

\* signBlob of one sidecar throws: Promise.all rejects.
SignBlobRejects ==
    \E i \in 1..Len(tasks) :
        /\ tasks[i].pc = "sign"
        /\ \E k \in 1..Len(tasks[i].signBlobs) :
            /\ tasks[i].signBlobs[k] = "pending"
            /\ tasks' = [tasks EXCEPT ![i] =
                            catchError([@ EXCEPT !.signBlobs[k] = "rejected"],
                                       tasks[i].slot, "signBlob")]
        /\ serviceLogs' = serviceLogs \cup promiseAllCatch(tasks'[i])
        /\ UNCHANGED <<dutyPc, dutySlot, dutyProposers, forkName, dutiesLeft, abortSignal,
                     revealVars, arbVars, builderVars, syncVars>>

\* The rest of createAndPublishBlock after publishBlockWrapper resolved.
publishedBlock(task, slot) ==
    [task EXCEPT !.pc = "done",
                 !.promise = "fulfilled",
                 !.logs = @ \cup {[level |-> "info", message |-> "Published block",
                                   ctx |-> logCtx(task.pubkey, slot)]}]

\* api.beacon.publishBlock answers ok: the beacon node handed the signed
\* block to the network.
PublishSucceeds ==
    \E i \in 1..Len(tasks) :
        /\ tasks[i].pc = "publish"
        /\ tasks[i].published.api = "publishBlock"
        /\ tasks' = [tasks EXCEPT ![i] =
                        publishedBlock([@ EXCEPT !.network = tasks[i].published.arg],
                                       tasks[i].slot)]
        /\ serviceLogs' = serviceLogs \cup promiseAllCatch(tasks'[i])
        /\ UNCHANGED <<dutyPc, dutySlot, dutyProposers, forkName, dutiesLeft, abortSignal,
                     revealVars, arbVars, builderVars, syncVars>>

\* api.beacon.publishBlindedBlock on the beacon node (section 4.3, step 5 of
\* the specification): BuilderClient.submitBlindedBlock is called first, and
\* what it returned is handed to the network; when it threw, nothing is.
publishBlindedBlock(signedBlindedBlock, data) ==
    LET revealed ==
            IF data = ApiFailure
            THEN Throw("execution.builder.submitBlindedBlock")
            ELSE submitBlindedBlock(signedBlindedBlock, data)
    IN  [revealed |-> revealed,
         network |-> IF revealed.status = "ok" THEN revealed.value ELSE NULL]

\* api.beacon.publishBlindedBlock answers: ok when the reveal returned and
\* the revealed block was handed to the network, an error when the reveal
\* threw (ApiError.assert then throws in publishBlockWrapper).
PublishBlindedBlockResponds ==
    \E i \in 1..Len(tasks) :
        /\ tasks[i].pc = "publish"
        /\ tasks[i].published.api = "publishBlindedBlock"
        /\ \E answer \in {publishBlindedBlock(tasks[i].published.arg, data)
                           : data \in SubmitResponses \cup {ApiFailure}} :
            LET task == [tasks[i] EXCEPT !.submitBlindedBlockCalls = @ + 1,
                                         !.revealed = answer.revealed,
                                         !.network = answer.network]
            IN  tasks' = [tasks EXCEPT ![i] =
                            IF answer.revealed.status = "ok"
                            THEN publishedBlock(task, tasks[i].slot)
                            ELSE catchError(task, tasks[i].slot, "Failed to publish block")]
        /\ serviceLogs' = serviceLogs \cup promiseAllCatch(tasks'[i])
        /\ UNCHANGED <<dutyPc, dutySlot, dutyProposers, forkName, dutiesLeft, abortSignal,
                     revealVars, arbVars, builderVars, syncVars>>

\* The beacon node rejects the published block: ApiError.assert throws.
PublishFails ==
    \E i \in 1..Len(tasks) :
        /\ tasks[i].pc = "publish"
        /\ tasks' = [tasks EXCEPT ![i] =
                        catchError(@, tasks[i].slot, "Failed to publish block")]
        /\ serviceLogs' = serviceLogs \cup promiseAllCatch(tasks'[i])
        /\ UNCHANGED <<dutyPc, dutySlot, dutyProposers, forkName, dutiesLeft, abortSignal,
                     revealVars, arbVars, builderVars, syncVars>>

\* A createAndPublishBlock that has not settled.
InFlight(task) == task.pc # "done"

\* The abort signal of the caller fires while a duty is in flight.  Neither
\* notifyBlockProductionFn(slot, proposers) nor createAndPublishBlock(pubkey,
\* slot) takes a signal, and no step of the service reads one.
AbortFires ==
    /\ ~abortSignal
    /\ \E i \in 1..Len(tasks) : InFlight(tasks[i])
    /\ abortSignal' = TRUE
    /\ UNCHANGED <<dutyPc, dutySlot, dutyProposers, tasks, serviceLogs, forkName,
                   dutiesLeft>>
    /\ UNCHANGED <<revealVars, arbVars, builderVars, syncVars>>

(***************************************************************************)
(* 4. ExecutionBuilderHttp: the constructor's circuit breaker parameters   *)
(* and the gate, status, with updateStatus and checkStatus.                *)
(***************************************************************************)

\* @lodestar/params, mainnet preset
SLOTS_PER_EPOCH == 32

Max(a, b) == IF a >= b THEN a ELSE b
Min(a, b) == IF a <= b THEN a ELSE b

\* The options of the constructor: urls, and faultInspectionWindow and
\* allowedFaults where they are given (an option not given is not a field).
BuilderUrls == {<<>>, <<"http://localhost:8661">>}
WindowOptions == 0..MaxOption
FaultOptions == -1..MaxOption
BuilderOpts ==
    {[urls |-> u] : u \in BuilderUrls}
    \cup {[urls |-> u, faultInspectionWindow |-> w]
          : u \in BuilderUrls, w \in WindowOptions}
    \cup {[urls |-> u, allowedFaults |-> f]
          : u \in BuilderUrls, f \in FaultOptions}
    \cup {[urls |-> u, faultInspectionWindow |-> w, allowedFaults |-> f]
          : u \in BuilderUrls, w \in WindowOptions, f \in FaultOptions}

\* Math.floor(Math.random() * SLOTS_PER_EPOCH), for Math.random() in [0, 1)
RandomSlots == 0..(SLOTS_PER_EPOCH - 1)

\* Faulty variant: an explicit window is taken as given.
constructFaultInspectionWindowMutant(options, randomSlots) ==
    IF "faultInspectionWindow" \in DOMAIN options
    THEN options.faultInspectionWindow
    ELSE SLOTS_PER_EPOCH + randomSlots

\* this.faultInspectionWindow = Math.max(
\*   opts.faultInspectionWindow ?? SLOTS_PER_EPOCH + floor(random * SLOTS_PER_EPOCH),
\*   SLOTS_PER_EPOCH)
constructFaultInspectionWindow(options, randomSlots) ==
    Max(IF "faultInspectionWindow" \in DOMAIN options
        THEN options.faultInspectionWindow
        ELSE SLOTS_PER_EPOCH + randomSlots,
        SLOTS_PER_EPOCH)

\* this.allowedFaults = Math.min(
\*   opts.allowedFaults ?? Math.floor(this.faultInspectionWindow / 2),
\*   Math.floor(this.faultInspectionWindow / 2))
constructAllowedFaults(options, window) ==
    Min(IF "allowedFaults" \in DOMAIN options
        THEN options.allowedFaults
        ELSE window \div 2,
        window \div 2)

BuilderIdle ==
    /\ builderPc = "unused"
    /\ opts = NULL
    /\ status = FALSE
    /\ faultInspectionWindow = 0
    /\ allowedFaults = 0
    /\ statusProbe = "none"
    /\ checkStatusResult = NULL
    /\ registerValidatorResult = NULL
    /\ getHeaderResult = NULL

\* Before new ExecutionBuilderHttp(opts, config): status = false is the
\* field's initial value.
InitBuilder ==
    /\ builderPc = "new"
    /\ opts \in BuilderOpts
    /\ status = FALSE
    /\ faultInspectionWindow = 0
    /\ allowedFaults = 0
    /\ statusProbe = "none"
    /\ checkStatusResult = NULL
    /\ registerValidatorResult = NULL
    /\ getHeaderResult = NULL

\* The constructor with a first url.  Math.random() is drawn only when no
\* faultInspectionWindow is given.
ConstructBuilder ==
    /\ builderPc = "new"
    /\ opts.urls # <<>>
    /\ \E randomSlots \in IF "faultInspectionWindow" \in DOMAIN opts
                           THEN {0} ELSE RandomSlots :
        LET window == constructFaultInspectionWindow(opts, randomSlots)
        IN  /\ faultInspectionWindow' = window
            /\ allowedFaults' = constructAllowedFaults(opts, window)
    /\ builderPc' = "constructed"
    /\ UNCHANGED <<opts, status, statusProbe, checkStatusResult>>
    /\ UNCHANGED <<builderCallVars, revealVars, arbVars, dutyVars, syncVars>>

\* The constructor without a url: throw Error("No Url provided for
\* executionBuilder").
ConstructBuilderThrows ==
    /\ builderPc = "new"
    /\ opts.urls = <<>>
    /\ builderPc' = "threw"
    /\ UNCHANGED <<opts, status, faultInspectionWindow, allowedFaults, statusProbe,
                   checkStatusResult>>
    /\ UNCHANGED <<builderCallVars, revealVars, arbVars, dutyVars, syncVars>>

\* updateStatus(shouldEnable)
UpdateStatus ==
    /\ builderPc = "constructed"
    /\ \E shouldEnable \in BOOLEAN : status' = shouldEnable
    /\ UNCHANGED <<builderPc, opts, faultInspectionWindow, allowedFaults, statusProbe,
                   checkStatusResult>>
    /\ UNCHANGED <<builderCallVars, revealVars, arbVars, dutyVars, syncVars>>

\* checkStatus() up to its await: api.status() is in flight.
CheckStatus ==
    /\ builderPc = "constructed"
    /\ statusProbe # "inFlight"
    /\ statusProbe' = "inFlight"
    /\ checkStatusResult' = NULL
    /\ UNCHANGED <<builderPc, opts, status, faultInspectionWindow, allowedFaults>>
    /\ UNCHANGED <<builderCallVars, revealVars, arbVars, dutyVars, syncVars>>

\* The answers of api.status(): an ok response, a response that is not ok
\* (the relay answered with an error status, which the api reports in its
\* response; the other calls of this.api pass theirs to ApiError.assert), or
\* a thrown error.
StatusAnswers == {"ok", "notOk", "threw"}

\* The rest of checkStatus once api.status() has answered: only a thrown
\* error reaches the catch, which sets status = false and rethrows.
afterStatus(answer, gate) ==
    IF answer = "threw"
    THEN [status |-> FALSE, result |-> Throw("api.status")]
    ELSE [status |-> gate, result |-> Return("void")]

\* api.status() resolves with an ok response.
StatusProbeResolves ==
    /\ statusProbe = "inFlight"
    /\ statusProbe' = "ok"
    /\ status' = afterStatus("ok", status).status
    /\ checkStatusResult' = afterStatus("ok", status).result
    /\ UNCHANGED <<builderPc, opts, faultInspectionWindow, allowedFaults>>
    /\ UNCHANGED <<builderCallVars, revealVars, arbVars, dutyVars, syncVars>>

\* api.status() resolves with a response that is not ok.
StatusProbeResolvesNotOk ==
    /\ statusProbe = "inFlight"
    /\ statusProbe' = "notOk"
    /\ status' = afterStatus("notOk", status).status
    /\ checkStatusResult' = afterStatus("notOk", status).result
    /\ UNCHANGED <<builderPc, opts, faultInspectionWindow, allowedFaults>>
    /\ UNCHANGED <<builderCallVars, revealVars, arbVars, dutyVars, syncVars>>

\* api.status() throws.
StatusProbeRejects ==
    /\ statusProbe = "inFlight"
    /\ statusProbe' = "threw"
    /\ status' = afterStatus("threw", status).status
    /\ checkStatusResult' = afterStatus("threw", status).result
    /\ UNCHANGED <<builderPc, opts, faultInspectionWindow, allowedFaults>>
    /\ UNCHANGED <<builderCallVars, revealVars, arbVars, dutyVars, syncVars>>

\* The options of a client whose gate is exercised: enabled either way, the
\* window given (so that the constructor draws nothing).
GateOpts ==
    {[enabled |-> e, urls |-> u, faultInspectionWindow |-> SLOTS_PER_EPOCH]
     : e \in BOOLEAN, u \in BuilderUrls}

\* The request of submitBlindedBlock made on that client: a bare block
\* committing to CommittedTransactions.
GateRequests ==
    {b \in SignedBlindedBlocks :
        /\ b.signature = "sigBlockA"
        /\ b.message.body.graffiti = "graffitiA"
        /\ b.message.body.executionPayloadHeader.transactionsRoot
               = hashTreeRoot(CommittedTransactions)}

InitGate ==
    /\ builderPc = "new"
    /\ opts \in GateOpts
    /\ status = FALSE
    /\ faultInspectionWindow = 0
    /\ allowedFaults = 0
    /\ statusProbe = "none"
    /\ checkStatusResult = NULL
    /\ registerValidatorResult = NULL
    /\ getHeaderResult = NULL

\* The answers of api.registerValidator: ok or not.
RegisterValidatorAnswers == {[ok |-> TRUE], ApiErrorResponse}

\* registerValidator(registrations): ApiError.assert on the answer.
registerValidator(res) ==
    IF ~res.ok THEN Throw("ApiError") ELSE Return("void")

RegisterValidator ==
    /\ builderPc = "constructed"
    /\ \E res \in RegisterValidatorAnswers :
        registerValidatorResult' = registerValidator(res)
    /\ UNCHANGED <<builderPc, opts, status, faultInspectionWindow, allowedFaults,
                   statusProbe, checkStatusResult, getHeaderResult>>
    /\ UNCHANGED <<revealVars, arbVars, dutyVars, syncVars>>

\* The answers of api.getHeader: a bid (header and value, with the blinded
\* blobs bundle from the blob fork on), or not ok.
GetHeaderAnswers ==
    {[ok |-> TRUE,
      response |-> [data |-> [message |-> [header |-> "header", value |-> v]]]]
     : v \in PayloadValues}
    \cup {[ok |-> TRUE,
           response |-> [data |-> [message |-> [header |-> "header", value |-> v,
                                                blindedBlobsBundle |-> "bundle"]]]]
          : v \in PayloadValues}
    \cup {ApiErrorResponse}

\* getHeader(fork, slot, parentHash, proposerPubKey): ApiError.assert on the
\* answer, then header, value and blindedBlobsBundle of its message.
getHeader(res) ==
    IF ~res.ok
    THEN Throw("execution.builder.getheader")
    ELSE LET message == res.response.data.message
         IN  Return([header |-> message.header,
                     executionPayloadValue |-> message.value,
                     blindedBlobsBundle |->
                         IF "blindedBlobsBundle" \in DOMAIN message
                         THEN message.blindedBlobsBundle
                         ELSE "undefined"])

GetHeader ==
    /\ builderPc = "constructed"
    /\ \E res \in GetHeaderAnswers : getHeaderResult' = getHeader(res)
    /\ UNCHANGED <<builderPc, opts, status, faultInspectionWindow, allowedFaults,
                   statusProbe, checkStatusResult, registerValidatorResult>>
    /\ UNCHANGED <<revealVars, arbVars, dutyVars, syncVars>>

\* submitBlindedBlock called on the constructed client.
SubmitBlindedBlock ==
    /\ builderPc = "constructed"
    /\ \/ SubmitBlindedBlockApiFails
       \/ SubmitBlindedBlockResponds

(***************************************************************************)
(* 5. ORARegularSync: start, stop, getHighestBlock, onGossipBlock and the  *)
(* loop of sync(), which fetches one range ahead of the one it processes.  *)
(* The fetcher (./fetcher) and the processor (./processor) are called, and *)
(* answer in any order.                                                    *)
(***************************************************************************)

\* A signed block, as far as the sync reads it: block.message.slot.
Block(slot) == [message |-> [slot |-> slot]]

\* The blocks of n consecutive slots from a slot on.
Range(from, n) == [i \in 1..n |-> Block(from + i - 1)]

\* What fetcher.next() may resolve with, a SignedBeaconBlock[]: the next
\* blocks after those it has returned, or none.  sync() does not test the
\* length of what it is given.
FetcherRanges(cursor) == {Range(cursor, n) : n \in 0..MaxRange}

\* Values of the expression in getHighestBlock: a number, or undefined.
JsNumber(n) == [type |-> "number", value |-> n]
JsUndefined == [type |-> "undefined"]

\* a ?? b: b when a is null or undefined, else a.
NullishCoalesce(a, b) == IF a.type \in {"undefined", "null"} THEN b ELSE a

\* getHighestBlock():
\*   lastBlock = blockBuffer.length > 0 ? blockBuffer[length - 1].message.slot : 0;
\*   return lastBlock ?? this.chain.forkChoice.getHead().slot;
getHighestBlock(buffer, head) ==
    LET lastBlock == IF Len(buffer) > 0
                     THEN JsNumber(buffer[Len(buffer)].message.slot)
                     ELSE JsNumber(0)
    IN  NullishCoalesce(lastBlock, JsNumber(head)).value

\* Faulty variant: a node whose head is at the current slot is not up to date.
upToDateMutant(head, current) == head > current

\* start(): headSlot >= currentSlot
upToDate(head, current) == head >= current

\* Faulty variant: stop() leaves the gossip subscription in place.
stopMutant(ctl, sub) ==
    [controller |-> IF ctl = "active" THEN "aborted" ELSE ctl,
     aborts |-> IF ctl = "active" THEN 1 ELSE 0,
     subscribed |-> sub,
     result |-> Return("void")]

\* stop(): aborts the controller if there is one that is not aborted, and
\* unsubscribes onGossipBlock.
stop(ctl, sub) ==
    [controller |-> IF ctl # "undefined" /\ ctl # "aborted" THEN "aborted" ELSE ctl,
     aborts |-> IF ctl # "undefined" /\ ctl # "aborted" THEN 1 ELSE 0,
     subscribed |-> FALSE,
     result |-> Return("void")]

\* Faulty variant: Promise.all resolves as soon as the fetch has resolved.
promiseAllMutant(fetch, process) ==
    IF fetch = "rejected" \/ process = "rejected" THEN "rejected"
    ELSE IF fetch = "resolved" THEN "resolved"
    ELSE "pending"

\* Promise.all([fetcher.next(), processUntilComplete(...)]): rejected once
\* one of the two is, resolved once both are.
promiseAll(fetch, process) ==
    IF fetch = "rejected" \/ process = "rejected" THEN "rejected"
    ELSE IF fetch = "resolved" /\ process = "resolved" THEN "resolved"
    ELSE "pending"

\* The rejection an await throws: a promise, and Promise.all with it, settles
\* once, so the first rejection stays and a later one is dropped.
rejectedFirst(first, source) == IF first = "none" THEN source ELSE first

\* Faulty variant: the loop goes on after the controller was aborted.
loopTopMutant(buffer, ctl) ==
    IF Len(buffer) = 0 THEN "TypeError" ELSE "awaitAll"

\* The top of the loop of sync(): while (!this.controller.signal.aborted),
\* then the read of the last block of blockBuffer, which throws a TypeError
\* on an empty buffer, then the two calls under Promise.all.
loopTop(buffer, ctl) ==
    IF ctl = "aborted" THEN "exited"
    ELSE IF Len(buffer) = 0 THEN "TypeError"
    ELSE "awaitAll"

\* this.blockBuffer = await this.fetcher.next()
firstBuffer(range) == range

\* this.blockBuffer = result[0]
nextBuffer(result) == result[1]

SyncIdle ==
    /\ oraPc = "unused"
    /\ headSlot = 0
    /\ currentSlot = 0
    /\ controller = "undefined"
    /\ subscribed = FALSE
    /\ emitted = 0
    /\ abortCount = 0
    /\ stopCalls = 0
    /\ stopResult = NULL
    /\ blockBuffer = <<>>
    /\ syncPc = "idle"
    /\ syncError = "none"
    /\ fetchState = "none"
    /\ fetched = <<>>
    /\ processState = "none"
    /\ processing = <<>>
    /\ fetcherCursor = 0
    /\ fetchedLog = <<>>
    /\ processedLog = <<>>
    /\ iterations = 0
    /\ firstRejection = "none"
    /\ highestBlock = NULL
    /\ gossipSeen = <<>>

\* The head and the clock a sync is constructed at: the head behind the
\* clock, at it, and ahead of it.
HeadSlots == {0, 1}
ClockSlots == {0, 1}

\* After new ORARegularSync(options, modules): the buffer is empty, there is
\* no controller, and the fetcher starts after the head.
InitSync ==
    /\ oraPc = "new"
    /\ headSlot \in HeadSlots
    /\ currentSlot \in ClockSlots
    /\ controller = "undefined"
    /\ subscribed = FALSE
    /\ emitted = 0
    /\ abortCount = 0
    /\ stopCalls = 0
    /\ stopResult = NULL
    /\ blockBuffer = <<>>
    /\ syncPc = "idle"
    /\ syncError = "none"
    /\ fetchState = "none"
    /\ fetched = <<>>
    /\ processState = "none"
    /\ processing = <<>>
    /\ fetcherCursor = headSlot + 1
    /\ fetchedLog = <<>>
    /\ processedLog = <<>>
    /\ iterations = 0
    /\ firstRejection = "none"
    /\ highestBlock = NULL
    /\ gossipSeen = <<>>

\* A call of stop() from start, onGossipBlock or outside.
CallStop ==
    LET stopped == stop(controller, subscribed)
    IN  /\ controller' = stopped.controller
        /\ subscribed' = stopped.subscribed
        /\ abortCount' = abortCount + stopped.aborts
        /\ stopCalls' = stopCalls + 1
        /\ stopResult' = stopped.result

\* start(): a node that is up to date emits syncCompleted and stops; any
\* other creates the controller, subscribes onGossipBlock and calls sync(),
\* which runs up to its first await, the first fetcher.next().
Start ==
    /\ oraPc = "new"
    /\ oraPc' = "started"
    /\ IF upToDate(headSlot, currentSlot)
       THEN /\ emitted' = emitted + 1
            /\ CallStop
            /\ UNCHANGED syncLoopVars
       ELSE /\ controller' = "active"
            /\ subscribed' = TRUE
            /\ syncPc' = "awaitFirst"
            /\ fetchState' = "pending"
            /\ UNCHANGED <<emitted, abortCount, stopCalls, stopResult>>
            /\ UNCHANGED <<blockBuffer, syncError, fetched, processState, processing,
                           fetcherCursor, fetchedLog, processedLog, iterations,
                           firstRejection>>
    /\ UNCHANGED <<headSlot, currentSlot, highestBlock, gossipSeen>>
    /\ UNCHANGED <<revealVars, arbVars, dutyVars, builderVars>>

\* stop() called from outside, before or after start().
Stop ==
    /\ oraPc \in {"new", "started"}
    /\ stopCalls < MaxStops
    /\ CallStop
    /\ UNCHANGED <<oraPc, emitted>>
    /\ UNCHANGED <<headSlot, currentSlot, syncLoopVars, highestBlock, gossipSeen>>
    /\ UNCHANGED <<revealVars, arbVars, dutyVars, builderVars>>

\* getHighestBlock()
GetHighestBlock ==
    /\ oraPc \in {"new", "started"}
    /\ highestBlock' = Return(getHighestBlock(blockBuffer, headSlot))
    /\ UNCHANGED <<headSlot, currentSlot, syncLifeVars, syncLoopVars, gossipSeen>>
    /\ UNCHANGED <<revealVars, arbVars, dutyVars, builderVars>>

\* onGossipBlock(block), delivered while subscribed; hasBlock is
\* chain.forkChoice.hasBlock(block.message.parentRoot).
OnGossipBlockWith(hasBlock) ==
    /\ subscribed
    /\ Len(gossipSeen) < MaxGossip
    /\ gossipSeen' = Append(gossipSeen, hasBlock)
    /\ IF hasBlock
       THEN /\ emitted' = emitted + 1
            /\ CallStop
       ELSE UNCHANGED <<controller, subscribed, emitted, abortCount, stopCalls, stopResult>>
    /\ UNCHANGED oraPc
    /\ UNCHANGED <<headSlot, currentSlot, syncLoopVars, highestBlock>>
    /\ UNCHANGED <<revealVars, arbVars, dutyVars, builderVars>>

OnGossipBlock == \E hasBlock \in BOOLEAN : OnGossipBlockWith(hasBlock)

\* fetcher.next() resolves with the next range.
FetcherNextResolves ==
    /\ fetchState = "pending"
    /\ \E range \in FetcherRanges(fetcherCursor) :
        /\ fetched' = range
        /\ fetcherCursor' = fetcherCursor + Len(range)
        /\ fetchedLog' = Append(fetchedLog, range)
    /\ fetchState' = "resolved"
    /\ UNCHANGED <<blockBuffer, syncPc, syncError, processState, processing,
                   processedLog, iterations, firstRejection>>
    /\ UNCHANGED <<headSlot, currentSlot, syncLifeVars, highestBlock, gossipSeen>>
    /\ UNCHANGED <<revealVars, arbVars, dutyVars, builderVars>>

\* fetcher.next() rejects.
FetcherNextRejects ==
    /\ fetchState = "pending"
    /\ fetchState' = "rejected"
    /\ firstRejection' = rejectedFirst(firstRejection, "fetcher")
    /\ UNCHANGED <<blockBuffer, syncPc, syncError, fetched, processState, processing,
                   fetcherCursor, fetchedLog, processedLog, iterations>>
    /\ UNCHANGED <<headSlot, currentSlot, syncLifeVars, highestBlock, gossipSeen>>
    /\ UNCHANGED <<revealVars, arbVars, dutyVars, builderVars>>

\* processUntilComplete resolves.
ProcessResolves ==
    /\ processState = "pending"
    /\ processState' = "resolved"
    /\ UNCHANGED <<blockBuffer, syncPc, syncError, fetchState, fetched, processing,
                   fetcherCursor, fetchedLog, processedLog, iterations, firstRejection>>
    /\ UNCHANGED <<headSlot, currentSlot, syncLifeVars, highestBlock, gossipSeen>>
    /\ UNCHANGED <<revealVars, arbVars, dutyVars, builderVars>>

\* processUntilComplete rejects.
ProcessRejects ==
    /\ processState = "pending"
    /\ processState' = "rejected"
    /\ firstRejection' = rejectedFirst(firstRejection, "processor")
    /\ UNCHANGED <<blockBuffer, syncPc, syncError, fetchState, fetched, processing,
                   fetcherCursor, fetchedLog, processedLog, iterations>>
    /\ UNCHANGED <<headSlot, currentSlot, syncLifeVars, highestBlock, gossipSeen>>
    /\ UNCHANGED <<revealVars, arbVars, dutyVars, builderVars>>

\* sync() goes on after an await with the buffer it has assigned: it leaves
\* the loop, or fails on an empty buffer, or starts the next fetch and the
\* processing of the buffer together.
LoopTop(buffer) ==
    /\ blockBuffer' = buffer
    /\ LET top == loopTop(buffer, controller)
       IN  IF top = "awaitAll"
           THEN /\ iterations < MaxIterations
                /\ syncPc' = "awaitAll"
                /\ fetchState' = "pending"
                /\ processState' = "pending"
                /\ processing' = buffer
                /\ processedLog' = Append(processedLog, buffer)
                /\ iterations' = iterations + 1
                /\ UNCHANGED syncError
           ELSE /\ syncPc' = IF top = "exited" THEN "exited" ELSE "rejected"
                /\ syncError' = IF top = "exited" THEN syncError ELSE top
                /\ UNCHANGED <<fetchState, processState, processing, processedLog,
                               iterations>>
    /\ UNCHANGED <<fetched, fetcherCursor, fetchedLog, firstRejection>>
    /\ UNCHANGED <<headSlot, currentSlot, syncLifeVars, highestBlock, gossipSeen>>
    /\ UNCHANGED <<revealVars, arbVars, dutyVars, builderVars>>

\* The first fetcher.next() of sync() has resolved.
SyncFirstFetched ==
    /\ syncPc = "awaitFirst"
    /\ fetchState = "resolved"
    /\ LoopTop(firstBuffer(fetched))

\* Promise.all has resolved: the buffer becomes the range just fetched.
SyncJoins ==
    /\ syncPc = "awaitAll"
    /\ promiseAll(fetchState, processState) = "resolved"
    /\ LoopTop(nextBuffer(<<fetched, "void">>))

\* An awaited call has rejected: sync() rejects with the first rejection, and
\* the catch of start() logs "Regular Sync: error".
SyncRejects ==
    /\ \/ syncPc = "awaitFirst" /\ fetchState = "rejected"
       \/ syncPc = "awaitAll" /\ promiseAll(fetchState, processState) = "rejected"
    /\ syncPc' = "rejected"
    /\ syncError' = firstRejection
    /\ UNCHANGED <<blockBuffer, fetchState, fetched, processState, processing,
                   fetcherCursor, fetchedLog, processedLog, iterations, firstRejection>>
    /\ UNCHANGED <<headSlot, currentSlot, syncLifeVars, highestBlock, gossipSeen>>
    /\ UNCHANGED <<revealVars, arbVars, dutyVars, builderVars>>

(***************************************************************************)
(* The specifications.                                                     *)
(***************************************************************************)

InitReveal ==
    /\ submitPc = "idle"
    /\ signedBlindedBlockOrContents \in SubmitRequests
    /\ submitData = NULL
    /\ submitResult = NULL
    /\ ArbIdle
    /\ DutyIdle
    /\ BuilderIdle
    /\ SyncIdle

NextReveal ==
    \/ SubmitBlindedBlockApiFails
    \/ SubmitBlindedBlockResponds

SpecReveal == InitReveal /\ [][NextReveal]_vars

InitArbitration == InitArb /\ RevealIdle /\ DutyIdle /\ BuilderIdle /\ SyncIdle

NextArb ==
    \/ ArbStart
    \/ EngineResolves
    \/ EngineRejects
    \/ BuilderResolves
    \/ BuilderRejects
    \/ ArbDecide

SpecArb == InitArbitration /\ [][NextArb]_vars

Init == InitDuty /\ RevealIdle /\ ArbIdle /\ BuilderIdle /\ SyncIdle

Next ==
    \/ NotifyBlockProduction
    \/ SignRandaoResolves
    \/ SignRandaoRejects
    \/ ProduceBlockV3Responds
    \/ ProduceBlockV3Fails
    \/ SignBlockResolves
    \/ SignBlockRejects
    \/ SignBlobResolves
    \/ SignBlobRejects
    \/ PublishSucceeds
    \/ PublishBlindedBlockResponds
    \/ PublishFails

Spec == Init /\ [][Next]_vars

\* The proposing service on a slot with several proposers: the notification
\* that lists them at the blob fork, and one more notification after it at
\* the fork before.
InitSiblings ==
    /\ dutyPc = "idle"
    /\ dutySlot = 0
    /\ tasks = <<>>
    /\ serviceLogs = {}
    /\ dutyProposers = <<>>
    /\ forkName \in {"capella", "deneb"}
    /\ dutiesLeft = IF forkName = "deneb" THEN 1 ELSE Cardinality(Pubkeys)
    /\ abortSignal = FALSE
    /\ RevealIdle
    /\ ArbIdle
    /\ BuilderIdle
    /\ SyncIdle

NextSiblings ==
    \/ NotifySiblings
    \/ SignRandaoResolves
    \/ SignRandaoRejects
    \/ ProduceBlockV3Responds
    \/ ProduceBlockV3Fails
    \/ SignBlockResolves
    \/ SignBlockRejects
    \/ SignBlobResolves
    \/ SignBlobRejects
    \/ PublishSucceeds
    \/ PublishBlindedBlockResponds
    \/ PublishFails

SpecSiblings == InitSiblings /\ [][NextSiblings]_vars

InitBuilderClient == InitBuilder /\ RevealIdle /\ ArbIdle /\ DutyIdle /\ SyncIdle

NextBuilder ==
    \/ ConstructBuilder
    \/ ConstructBuilderThrows
    \/ UpdateStatus
    \/ CheckStatus
    \/ StatusProbeResolves
    \/ StatusProbeResolvesNotOk
    \/ StatusProbeRejects

SpecBuilder == InitBuilderClient /\ [][NextBuilder]_vars

\* The builder client with every method that is called on it.
InitGateClient ==
    /\ InitGate
    /\ submitPc = "idle"
    /\ signedBlindedBlockOrContents \in GateRequests
    /\ submitData = NULL
    /\ submitResult = NULL
    /\ ArbIdle
    /\ DutyIdle
    /\ SyncIdle

NextGate ==
    \/ ConstructBuilder
    \/ ConstructBuilderThrows
    \/ UpdateStatus
    \/ CheckStatus
    \/ StatusProbeResolves
    \/ StatusProbeResolvesNotOk
    \/ StatusProbeRejects
    \/ RegisterValidator
    \/ GetHeader
    \/ SubmitBlindedBlock

SpecGate == InitGateClient /\ [][NextGate]_vars

InitSyncClient == InitSync /\ RevealIdle /\ ArbIdle /\ DutyIdle /\ BuilderIdle

NextSync ==
    \/ Start
    \/ Stop
    \/ OnGossipBlock
    \/ FetcherNextResolves
    \/ FetcherNextRejects
    \/ ProcessResolves
    \/ ProcessRejects
    \/ SyncFirstFetched
    \/ SyncJoins
    \/ SyncRejects

SpecSync == InitSyncClient /\ [][NextSync]_vars

\* The calls sync() awaits return, and sync() goes on when they have.
SyncFairness ==
    /\ WF_vars(FetcherNextResolves \/ FetcherNextRejects)
    /\ WF_vars(ProcessResolves \/ ProcessRejects)
    /\ WF_vars(SyncFirstFetched \/ SyncJoins \/ SyncRejects)

SpecSyncLive == InitSyncClient /\ [][NextSync]_vars /\ SyncFairness

\* The sync with getHighestBlock() called at any moment.
SpecSyncRead == InitSyncClient /\ [][NextSync \/ GetHighestBlock]_vars

\* The proposing service with a caller whose abort signal may fire while a
\* duty is in flight.
SpecAbort == Init /\ [][Next \/ AbortFires]_vars

(***************************************************************************)
(* Properties of submitBlindedBlock (under SpecReveal).                    *)
(***************************************************************************)

\* The call ran to its end on an answer of the relay.
RevealAnswered == submitPc = "done" /\ submitData # ApiFailure

\* The parts of the request and of the answer, read as the source reads them.
RequestBlock ==
    IF isSignedBlindedBlockContents(signedBlindedBlockOrContents)
    THEN signedBlindedBlockOrContents.signedBlindedBlock
    ELSE signedBlindedBlockOrContents
RequestHasSidecars == isSignedBlindedBlockContents(signedBlindedBlockOrContents)
RequestSidecars == signedBlindedBlockOrContents.signedBlindedBlobSidecars
AnswerPayload ==
    IF isExecutionPayloadAndBlobsBundle(submitData)
    THEN submitData.executionPayload ELSE submitData
AnswerHasBundle == isExecutionPayloadAndBlobsBundle(submitData)
AnswerBlobs == submitData.blobsBundle.blobs

CommittedRoot == RequestBlock.message.body.executionPayloadHeader.transactionsRoot
RevealedRoot == hashTreeRoot(AnswerPayload.transactions)

\* The call failed: an error, and neither a block nor sidecars.
RevealFailed ==
    /\ submitResult.status = "error"
    /\ "value" \notin DOMAIN submitResult

\* The blob bundle of the answer fits the request.
BlobsConsistent ==
    IF RequestHasSidecars
    THEN AnswerHasBundle /\ Len(AnswerBlobs) = Len(RequestSidecars)
    ELSE ~AnswerHasBundle

\* The signed block the call returned.
ReturnedBlock ==
    IF RequestHasSidecars
    THEN submitResult.value.signedBlock
    ELSE submitResult.value

\* C7: submitBlindedBlock fails, returning no block and no sidecars, whenever
\* the transactions root of the revealed payload differs from the
\* transactionsRoot of the blinded block's header, whatever sidecars the
\* request carries and whatever bundle the answer carries.
C7_RootMismatchFails ==
    (RevealAnswered /\ RevealedRoot # CommittedRoot) => RevealFailed

\* C7 happens: roots differ while the blob bundle fits the sidecars, so that
\* only the root check can have rejected the answer.
C7_Witness ==
    /\ RevealAnswered
    /\ RevealedRoot # CommittedRoot
    /\ RequestHasSidecars /\ AnswerHasBundle
    /\ Len(RequestSidecars) = 2 /\ Len(AnswerBlobs) = 2
    /\ RevealFailed

\* C8: with blinded blob sidecars in the request the call fails when the
\* answer has no blobs bundle and when the bundle's blob count differs from
\* the number of sidecars; with no sidecars in the request (a fork before
\* blobs) it fails when the answer has a blobs bundle. No block is returned.
C8_BlobBundleConsistency ==
    RevealAnswered =>
        /\ (RequestHasSidecars /\ ~AnswerHasBundle) => RevealFailed
        /\ (RequestHasSidecars /\ AnswerHasBundle
              /\ Len(AnswerBlobs) # Len(RequestSidecars)) => RevealFailed
        /\ (~RequestHasSidecars /\ AnswerHasBundle) => RevealFailed

\* C8 happens: the roots agree and the bundle has more blobs than the
\* request has sidecars, so that only the count check rejects the answer.
C8_Witness ==
    /\ RevealAnswered
    /\ RevealedRoot = CommittedRoot
    /\ RequestHasSidecars /\ AnswerHasBundle
    /\ Len(RequestSidecars) = 1 /\ Len(AnswerBlobs) = 2
    /\ RevealFailed

\* C9: when the call succeeds on N blinded sidecars and a bundle of N blobs
\* it returns N signed sidecars, the i-th with the signature and every
\* message field of the i-th blinded sidecar and with the i-th blob.
C9_SidecarsIndexAligned ==
    (RevealAnswered /\ RequestHasSidecars /\ submitResult.status = "ok") =>
        LET out == submitResult.value.signedBlobSidecars
            N == Len(RequestSidecars)
        IN  /\ Len(AnswerBlobs) = N
            /\ Len(out) = N
            /\ \A i \in 1..N :
                /\ DOMAIN out[i] = {"signature", "message"}
                /\ out[i].signature = RequestSidecars[i].signature
                /\ DOMAIN out[i].message =
                       DOMAIN RequestSidecars[i].message \cup {"blob"}
                /\ \A f \in DOMAIN RequestSidecars[i].message :
                       out[i].message[f] = RequestSidecars[i].message[f]
                /\ out[i].message.blob = AnswerBlobs[i]

\* C9 happens: two different sidecars and two different blobs are zipped.
C9_Witness ==
    /\ RevealAnswered /\ RequestHasSidecars /\ submitResult.status = "ok"
    /\ Len(RequestSidecars) = 2
    /\ RequestSidecars[1] # RequestSidecars[2]
    /\ AnswerBlobs[1] # AnswerBlobs[2]
    /\ Len(submitResult.value.signedBlobSidecars) = 2

\* C10: when the revealed transactions hash to the committed root (and the
\* blob bundle fits the request) the call succeeds, and the returned signed
\* block has the signature, every message field and every body field of the
\* blinded block unchanged, with the revealed payload as executionPayload.
C10_RoundTrip ==
    (RevealAnswered /\ RevealedRoot = CommittedRoot /\ BlobsConsistent) =>
        /\ submitResult.status = "ok"
        /\ DOMAIN ReturnedBlock = DOMAIN RequestBlock
        /\ ReturnedBlock.signature = RequestBlock.signature
        /\ DOMAIN ReturnedBlock.message = DOMAIN RequestBlock.message
        /\ \A f \in DOMAIN RequestBlock.message \ {"body"} :
               ReturnedBlock.message[f] = RequestBlock.message[f]
        /\ DOMAIN ReturnedBlock.message.body \ {"executionPayloadHeader"} =
               (DOMAIN RequestBlock.message.body \ {"executionPayloadHeader"})
                   \cup {"executionPayload"}
        /\ \A f \in DOMAIN RequestBlock.message.body \ {"executionPayloadHeader"} :
               ReturnedBlock.message.body[f] = RequestBlock.message.body[f]
        /\ ReturnedBlock.message.body.executionPayload = AnswerPayload

\* C10 happens: a bare blinded block is revealed by a bare payload with a
\* non-empty transaction list that hashes to the committed root.
C10_Witness ==
    /\ RevealAnswered
    /\ ~RequestHasSidecars /\ ~AnswerHasBundle
    /\ Len(AnswerPayload.transactions) = 2
    /\ RevealedRoot = CommittedRoot
    /\ submitResult.status = "ok"
    /\ submitResult.value.message.body.executionPayload = AnswerPayload

(***************************************************************************)
(* Properties of the arbitration (under SpecArb).                          *)
(***************************************************************************)

ArbDone == arbPc = "done"
EngineSucceeded == fullBlock.state = "resolved"
BuilderSucceeded == blindedBlock.state = "resolved"
EngineFailed == fullBlock.state = "rejected"
BuilderFailed == blindedBlock.state = "rejected"

\* The arbitration returned the engine's full block, with the engine's value.
ReturnedEngineCandidate ==
    /\ produceBlockV3Result.status = "ok"
    /\ produceBlockV3Result.value.source = "engine"
    /\ produceBlockV3Result.value.executionPayloadBlinded = FALSE
    /\ produceBlockV3Result.value.executionPayloadValue = fullBlock.executionPayloadValue

\* The arbitration returned the builder's blinded block, with the builder's value.
ReturnedBuilderCandidate ==
    /\ produceBlockV3Result.status = "ok"
    /\ produceBlockV3Result.value.source = "builder"
    /\ produceBlockV3Result.value.executionPayloadBlinded = TRUE
    /\ produceBlockV3Result.value.executionPayloadValue = blindedBlock.executionPayloadValue

\* C1: under MaxProfit, when both calls succeed, the candidate with the
\* strictly larger executionPayloadValue is returned, and on equal values
\* the engine's full block is returned.
C1_MaxProfitLargerValueTieEngine ==
    (ArbDone /\ builderSelection = "MaxProfit" /\ EngineSucceeded /\ BuilderSucceeded) =>
        IF blindedBlock.executionPayloadValue > fullBlock.executionPayloadValue
        THEN ReturnedBuilderCandidate
        ELSE ReturnedEngineCandidate

\* C1 happens: both succeed with the same non-zero value and the engine's
\* block is returned.
C1_Witness ==
    /\ ArbDone /\ builderSelection = "MaxProfit"
    /\ EngineSucceeded /\ BuilderSucceeded
    /\ fullBlock.executionPayloadValue = 1
    /\ blindedBlock.executionPayloadValue = 1
    /\ ReturnedEngineCandidate

\* C2: under BuilderAlways, whenever the builder call succeeds the builder's
\* blinded block is returned, whatever the two values are and whether or not
\* the engine call succeeded.
C2_BuilderAlwaysSelectsBuilder ==
    (ArbDone /\ builderSelection = "BuilderAlways" /\ BuilderSucceeded) =>
        ReturnedBuilderCandidate

\* C2 happens: the builder bids 0, the engine's block is worth more, and the
\* builder's block is returned.
C2_Witness ==
    /\ ArbDone /\ builderSelection = "BuilderAlways"
    /\ BuilderSucceeded /\ EngineSucceeded
    /\ blindedBlock.executionPayloadValue = 0
    /\ fullBlock.executionPayloadValue = 2
    /\ ReturnedBuilderCandidate

\* C3: under MaxProfit and BuilderAlways, when exactly one of the two calls
\* succeeds the arbitration succeeds with that source's candidate; the other
\* call's failure is not raised.
C3_SingleSuccessIsSelected ==
    (ArbDone /\ builderSelection \in {"MaxProfit", "BuilderAlways"}) =>
        /\ (EngineSucceeded /\ BuilderFailed) => ReturnedEngineCandidate
        /\ (BuilderSucceeded /\ EngineFailed) => ReturnedBuilderCandidate

\* C3 happens: the engine throws, the builder bids 0, the builder's block is
\* returned.
C3_Witness ==
    /\ ArbDone /\ builderSelection = "MaxProfit"
    /\ EngineFailed /\ BuilderSucceeded
    /\ blindedBlock.executionPayloadValue = 0
    /\ ReturnedBuilderCandidate

\* C4: once the arbitration has started, the engine call has been issued
\* exactly once unless the policy is BuilderOnly (then never), and the
\* builder call exactly once unless the policy is ExecutionOnly (then never),
\* whatever the calls return.
C4_CallCounts ==
    IF arbPc = "start"
    THEN produceBlockCallCount = 0 /\ produceBlindedBlockCallCount = 0
    ELSE /\ produceBlockCallCount = (IF builderSelection = "BuilderOnly" THEN 0 ELSE 1)
         /\ produceBlindedBlockCallCount =
                (IF builderSelection = "ExecutionOnly" THEN 0 ELSE 1)

\* C4 happens: an ExecutionOnly arbitration ends with one engine call and no
\* builder call.
C4_Witness ==
    /\ ArbDone /\ builderSelection = "ExecutionOnly"
    /\ produceBlockCallCount = 1 /\ produceBlindedBlockCallCount = 0
    /\ produceBlockV3Result.status = "ok"

\* The source the decision table names for the calls' final outcomes.
TableSource ==
    IF EngineSucceeded /\ BuilderSucceeded
    THEN IF builderSelection = "BuilderAlways"
              \/ blindedBlock.executionPayloadValue > fullBlock.executionPayloadValue
         THEN "builder" ELSE "engine"
    ELSE IF EngineSucceeded THEN "engine"
    ELSE IF BuilderSucceeded THEN "builder"
    ELSE "none"

\* C5: nothing is returned while a call that was issued is still pending,
\* and what is returned depends on the two calls' outcomes only, not on the
\* order in which they completed.
C5_DecisionAfterJoin ==
    /\ produceBlockV3Result # NULL =>
           (fullBlock.state # "pending" /\ blindedBlock.state # "pending")
    /\ ArbDone =>
           CASE TableSource = "engine" -> ReturnedEngineCandidate
             [] TableSource = "builder" -> ReturnedBuilderCandidate
             [] OTHER -> produceBlockV3Result.status = "error"

\* C5 happens: under MaxProfit the builder answers first with the lower
\* value, the engine later with the higher one, and the engine's block is
\* returned.
C5_Witness ==
    /\ ArbDone /\ builderSelection = "MaxProfit"
    /\ completionOrder = <<"builder", "engine">>
    /\ EngineSucceeded /\ BuilderSucceeded
    /\ blindedBlock.executionPayloadValue = 1
    /\ fullBlock.executionPayloadValue = 2
    /\ ReturnedEngineCandidate

(***************************************************************************)
(* Properties of the proposing service (under Spec).                       *)
(***************************************************************************)

\* The task logged its failure at error level with the slot and the
\* validator of the duty.
LoggedErrorWithContext(task) ==
    \E l \in task.logs :
        /\ l.level = "error"
        /\ l.message = "Error proposing block"
        /\ l.ctx.slot = task.slot
        /\ l.ctx.validator = prettyBytes(toHexString(task.pubkey))

\* C6: when every source the policy requires failed to produce, the duty
\* ends without a candidate: createAndPublishBlock makes no signBlock, no
\* signBlob and no publishBlock or publishBlindedBlock call, logs the
\* failure with slot and validator, and does not rethrow it.
C6_NoCandidateNoSignNoPublish ==
    \A i \in 1..Len(tasks) :
        tasks[i].noSourceProduced =>
            /\ tasks[i].blockContents = NULL
            /\ tasks[i].signBlockCalls = 0
            /\ tasks[i].signBlobCalls = 0
            /\ tasks[i].publishBlockCalls = 0
            /\ tasks[i].publishBlindedBlockCalls = 0
            /\ tasks[i].published = NULL
            /\ tasks[i].pc = "done"
            /\ tasks[i].promise = "fulfilled"
            /\ LoggedErrorWithContext(tasks[i])

\* C6 happens: a duty after genesis whose production found no source has
\* ended, with the error logged under the validator's shortened key.
C6_Witness ==
    \E i \in 1..Len(tasks) :
        /\ tasks[i].slot > GENESIS_SLOT
        /\ tasks[i].noSourceProduced
        /\ tasks[i].produceBlockV3Calls = 1
        /\ tasks[i].pc = "done"
        /\ \E l \in tasks[i].logs :
            /\ l.level = "error"
            /\ l.error = "Failed to produce block"
            /\ l.ctx.validator =
                   <<"0", "x", "a", "b", "0", "1", "...", "0", "2", "0", "3">>

\* The publish calls a task has made.
PublishCalls(task) == task.publishBlockCalls + task.publishBlindedBlockCalls

\* The signed sidecars a publish call carries.
PublishedSidecars(call) ==
    IF call.api = "publishBlindedBlock"
    THEN call.arg.signedBlindedBlobSidecars
    ELSE call.arg.signedBlobSidecars

\* C11: createAndPublishBlock publishes only after signBlock and the
\* signBlob of every blob sidecar of the candidate have resolved: while a
\* signature is pending or has failed no publish call has been made, at most
\* one publish call is made, and what is published is the candidate's block
\* under the validator's signature with one signed sidecar per sidecar of
\* the candidate, in the candidate's order.
C11_PublishAfterAllSignatures ==
    \A i \in 1..Len(tasks) :
        LET task == tasks[i]
            blobs == task.blockContents.blobs
        IN  /\ PublishCalls(task) <= 1
            /\ (\/ task.signBlock # "resolved"
                 \/ \E k \in 1..Len(task.signBlobs) : task.signBlobs[k] # "resolved")
               => /\ PublishCalls(task) = 0
                  /\ task.published = NULL
            /\ PublishCalls(task) = 1
               => /\ task.signBlockCalls = 1
                  /\ IF blobs = NULL_LIST
                     THEN /\ task.signBlobCalls = 0
                          /\ task.published.arg.message = task.blockContents.block
                          /\ task.published.arg.signature = <<"sig", task.pubkey>>
                     ELSE LET sidecars == PublishedSidecars(task.published)
                          IN  /\ task.signBlobCalls = Len(blobs)
                              /\ Len(sidecars) = Len(blobs)
                              /\ \A k \in 1..Len(blobs) :
                                    /\ sidecars[k].message = blobs[k]
                                    /\ sidecars[k].signature = <<"sig", task.pubkey>>

\* C11 happens: a candidate with two blob sidecars was published after its
\* three signatures resolved, while a sibling whose blob signature failed
\* published nothing.
C11_Witness ==
    \E i, j \in 1..Len(tasks) :
        /\ PublishCalls(tasks[i]) = 1
        /\ tasks[i].signBlock = "resolved"
        /\ tasks[i].signBlobs = <<"resolved", "resolved">>
        /\ Len(PublishedSidecars(tasks[i].published)) = 2
        /\ tasks[j].signBlock = "resolved"
        /\ \E k \in 1..Len(tasks[j].signBlobs) : tasks[j].signBlobs[k] = "rejected"
        /\ PublishCalls(tasks[j]) = 0

\* The block a publish call or the network was given.
SignedBlockOf(x) == IF "signedBlock" \in DOMAIN x THEN x.signedBlock ELSE x

\* C12: publishing follows the candidate's blinded tag.  A candidate that is
\* not blinded is sent through publishBlock as signed, and no reveal is
\* made for it.  A blinded candidate is sent through publishBlindedBlock,
\* never through publishBlock; there submitBlindedBlock is called first,
\* the network is handed exactly what it returned, a full block, and when
\* it threw the network is handed nothing and the task ends in its catch.
C12_PublishFollowsBlindedTag ==
    \A i \in 1..Len(tasks) :
        LET task == tasks[i]
        IN  task.published # NULL =>
              IF task.blockContents.executionPayloadBlinded
              THEN /\ task.published.api = "publishBlindedBlock"
                   /\ task.publishBlockCalls = 0
                   /\ task.publishBlindedBlockCalls = 1
                   /\ task.network # NULL
                      => /\ task.submitBlindedBlockCalls = 1
                         /\ task.revealed.status = "ok"
                         /\ task.network = task.revealed.value
                         /\ "executionPayload"
                                \in DOMAIN SignedBlockOf(task.network).message.body
                   /\ (task.revealed # NULL /\ task.revealed.status = "error")
                      => /\ task.network = NULL
                         /\ task.pc = "done"
                         /\ \E l \in task.logs : l.level = "error"
              ELSE /\ task.published.api = "publishBlock"
                   /\ task.publishBlockCalls = 1
                   /\ task.publishBlindedBlockCalls = 0
                   /\ task.submitBlindedBlockCalls = 0
                   /\ task.revealed = NULL
                   /\ task.network \in {NULL, task.published.arg}

\* C12 happens: one blinded candidate with blob sidecars was revealed and
\* handed to the network as full block contents, and another blinded
\* candidate's reveal threw on the transactions root, so that nothing of it
\* was published.
C12_Witness ==
    \E i, j \in 1..Len(tasks) :
        /\ tasks[i].blockContents # NULL
        /\ tasks[i].blockContents.executionPayloadBlinded
        /\ tasks[i].revealed # NULL
        /\ tasks[i].revealed.status = "ok"
        /\ tasks[i].network # NULL
        /\ "signedBlobSidecars" \in DOMAIN tasks[i].network
        /\ Len(tasks[i].network.signedBlobSidecars) = 2
        /\ tasks[j].blockContents # NULL
        /\ tasks[j].blockContents.executionPayloadBlinded
        /\ tasks[j].revealed = Throw("Invalid transactionsRoot of the builder payload")
        /\ tasks[j].network = NULL
        /\ tasks[j].pc = "done"

\* The task ended in its catch.
TaskFailed(task) == \E l \in task.logs : l.level = "error"

\* The steps of the createAndPublishBlock tasks.
TaskNext ==
    \/ SignRandaoResolves
    \/ SignRandaoRejects
    \/ ProduceBlockV3Responds
    \/ ProduceBlockV3Fails
    \/ SignBlockResolves
    \/ SignBlockRejects
    \/ SignBlobResolves
    \/ SignBlobRejects
    \/ PublishSucceeds
    \/ PublishBlindedBlockResponds
    \/ PublishFails

\* No failure leaves its task: the promise of no createAndPublishBlock
\* rejects, notifyBlockProductionFn logs no error, a failed task has logged
\* its error with slot and validator and its promise is fulfilled; a task
\* on its way to publish can take its next step without failing whatever
\* its siblings have done, and the scheduler can deliver its next
\* notification.
C13_Contained ==
    /\ \A l \in serviceLogs : l.level # "error"
    /\ \A i \in 1..Len(tasks) :
        /\ tasks[i].promise \in {"pending", "fulfilled"}
        /\ TaskFailed(tasks[i])
           => /\ tasks[i].pc = "done"
              /\ tasks[i].promise = "fulfilled"
              /\ LoggedErrorWithContext(tasks[i])
        /\ tasks[i].pc \in {"signRandao", "produceBlock", "sign"}
           => ENABLED (/\ TaskNext
                       /\ tasks'[i] # tasks[i]
                       /\ ~TaskFailed(tasks'[i]))
    /\ dutiesLeft > 0 => ENABLED NotifySiblings

\* The step in which a task fails changes no other task, and a
\* notification changes no task that was started before it.
C13_SiblingsUntouched ==
    /\ Len(tasks') >= Len(tasks)
    /\ \A i, j \in 1..Len(tasks) :
        (i # j /\ ~TaskFailed(tasks[i]) /\ TaskFailed(tasks'[i]))
            => tasks'[j] = tasks[j]
    /\ dutiesLeft' # dutiesLeft
       => \A j \in 1..Len(tasks) : tasks'[j] = tasks[j]

\* C13: a failure at any stage of one proposer's createAndPublishBlock
\* (signRandao, production, signBlock, signBlob, publishing) stays in that
\* task: it is caught and logged there, no exception reaches the caller of
\* notifyBlockProductionFn, no sibling task is changed or held up, and
\* later notifications are handled as before.
C13_FailureIsContained == []C13_Contained /\ [][C13_SiblingsUntouched]_vars

\* C13 happens: two notifications were delivered, the first with two
\* proposers for its slot and the second with one.  The task of the first
\* proposer failed at signRandao, the task of its sibling went on to hand
\* its block to the network, and so did the task of the later notification.
C13_Witness ==
    /\ dutiesLeft = 0
    /\ Len(tasks) = 3
    /\ Len(dutyProposers) = 1
    /\ tasks[1].slot = tasks[2].slot
    /\ tasks[1].pubkey # tasks[2].pubkey
    /\ TaskFailed(tasks[1])
    /\ tasks[1].produceBlockV3Calls = 0
    /\ \A i \in {2, 3} :
        /\ tasks[i].pc = "done"
        /\ tasks[i].network # NULL
        /\ ~TaskFailed(tasks[i])

\* C14 as claimed: block creation and publishing is started at most once
\* for a slot and a public key, whatever notifications arrive.
C14_AtMostOncePerDuty ==
    \A i, j \in 1..Len(tasks) :
        i # j => <<tasks[i].slot, tasks[i].pubkey>> # <<tasks[j].slot, tasks[j].pubkey>>

\* One step of the service, for C14: only a notification starts tasks, a
\* notification for a slot after genesis starts exactly one task for every
\* proposer it lists, in the order listed, and no task makes any of its
\* calls a second time.
C14_StartedOncePerListing ==
    /\ dutiesLeft' = dutiesLeft => Len(tasks') = Len(tasks)
    /\ (dutiesLeft' # dutiesLeft /\ dutySlot' > GENESIS_SLOT)
       => /\ Len(tasks') = Len(tasks) + Len(dutyProposers')
          /\ \A k \in 1..Len(dutyProposers') :
                LET started == tasks'[Len(tasks) + k]
                IN  /\ started.pubkey = dutyProposers'[k]
                    /\ started.slot = dutySlot'
                    /\ started.pc = "signRandao"
                    /\ started.signRandaoCalls = 1
                    /\ started.produceBlockV3Calls = 0
                    /\ PublishCalls(started) = 0
    /\ \A i \in 1..Len(tasks') :
        /\ tasks'[i].signRandaoCalls = 1
        /\ tasks'[i].produceBlockV3Calls <= 1
        /\ tasks'[i].signBlockCalls <= 1
        /\ PublishCalls(tasks'[i]) <= 1

\* C14, amended: every notification for a slot after genesis starts block
\* creation exactly once for each proposer it lists, and a started task
\* makes each of its calls at most once.  The service keeps no record of
\* the duties it was notified of: a slot and public key notified twice is
\* started twice.
C14_OncePerNotifiedProposer == [][C14_StartedOncePerListing]_vars

\* C14 happens: the same slot and public key were notified twice, and both
\* tasks handed a block to the network.
C14_Witness ==
    \E i, j \in 1..Len(tasks) :
        /\ i # j
        /\ tasks[i].slot = tasks[j].slot
        /\ tasks[i].pubkey = tasks[j].pubkey
        /\ Len(dutyProposers) = 1
        /\ tasks[i].network # NULL
        /\ tasks[j].network # NULL

\* One step of the service, for C15: a notification for a slot at or before
\* the genesis slot, whatever proposers it lists, starts no task and so
\* makes no signRandao, production, signing or publish call, changes no
\* task, and logs one debug line and nothing else.
C15_GenesisStep ==
    (dutiesLeft' # dutiesLeft /\ dutySlot' <= GENESIS_SLOT)
        => /\ tasks' = tasks
           /\ serviceLogs' = serviceLogs \cup
                  {[level |-> "debug",
                    message |-> "Not producing block before or at genesis slot"]}

\* C15: a duty notification for a slot at or before the genesis slot is a
\* no-op for every list of proposers, and no task is ever running for such
\* a slot.
C15_GenesisIsNoOp ==
    /\ [][C15_GenesisStep]_vars
    /\ [](\A i \in 1..Len(tasks) : tasks[i].slot > GENESIS_SLOT)

\* C15 happens: a notification for the genesis slot listing two proposers
\* was handled, and nothing was started or logged but the debug line.
C15_Witness ==
    /\ dutyPc = "notified"
    /\ dutySlot = GENESIS_SLOT
    /\ Len(dutyProposers) = 2
    /\ tasks = <<>>
    /\ serviceLogs = {[level |-> "debug",
                       message |-> "Not producing block before or at genesis slot"]}

\* The candidates produceBlockWrapper has returned to the tasks.
Candidates == {tasks[i].blockContents : i \in {j \in DOMAIN tasks : tasks[j].blockContents # NULL}}

\* The sidecars of a candidate are of the form of its block: blinded
\* sidecars (blobRoot) with a blinded block, full ones (blob) with a full one.
BlobFormAgrees(candidate) ==
    candidate.blobs # NULL_LIST =>
        \A k \in DOMAIN candidate.blobs :
            ("blobRoot" \in DOMAIN candidate.blobs[k]) = candidate.executionPayloadBlinded

\* C19: every candidate built by produceBlockWrapper from a production
\* response has blobs non-null if and only if the response's fork version
\* supports blobs (it is one of ForkBlobs, the forks of the candidate type
\* that carries blobs), and sidecars of the form of its block.
C19_CandidateInvariant ==
    \A candidate \in Candidates :
        /\ (candidate.blobs # NULL_LIST) = (candidate.version \in ForkBlobs)
        /\ BlobFormAgrees(candidate)

\* C19 happens: at the blob fork one proposer's candidate was built from a
\* blinded answer with sidecars and its sibling's from a full answer with
\* sidecars.
C19_Witness ==
    /\ Len(tasks) = 2
    /\ \A i \in 1..2 :
        /\ tasks[i].blockContents # NULL
        /\ tasks[i].blockContents.version \in ForkBlobs
        /\ tasks[i].blockContents.blobs # NULL_LIST
        /\ Len(tasks[i].blockContents.blobs) > 0
    /\ tasks[1].blockContents.executionPayloadBlinded
    /\ ~tasks[2].blockContents.executionPayloadBlinded


(***************************************************************************)
(* ExecutionBuilderHttp: checkStatus and the constructor's parameters      *)
(* (under SpecBuilder).                                                    *)
(***************************************************************************)

\* The probe of checkStatus has just answered with a failure.
StatusProbeFails ==
    /\ statusProbe = "inFlight"
    /\ statusProbe' \in {"notOk", "threw"}

\* C16: checkStatus is fail-closed.  Whenever the liveness probe fails, the
\* gate is false when checkStatus completes, whatever it was before or
\* during the probe, and the failure is surfaced to the caller.
C16_FailClosed ==
    [][StatusProbeFails =>
          /\ status' = FALSE
          /\ checkStatusResult'.status = "error"]_vars

\* C17: after construction with any options and any random draw,
\* faultInspectionWindow >= SLOTS_PER_EPOCH and
\* allowedFaults <= floor(faultInspectionWindow / 2).
C17_WindowAndFaultsClamped ==
    builderPc = "constructed" =>
        /\ faultInspectionWindow >= SLOTS_PER_EPOCH
        /\ allowedFaults <= faultInspectionWindow \div 2

\* Both clamps have acted: the window given was below SLOTS_PER_EPOCH and the
\* allowedFaults given above half of the clamped window.
C17_Witness ==
    /\ builderPc = "constructed"
    /\ "faultInspectionWindow" \in DOMAIN opts
    /\ opts.faultInspectionWindow < SLOTS_PER_EPOCH
    /\ "allowedFaults" \in DOMAIN opts
    /\ opts.allowedFaults > SLOTS_PER_EPOCH \div 2
    /\ faultInspectionWindow = SLOTS_PER_EPOCH
    /\ allowedFaults = SLOTS_PER_EPOCH \div 2

\* C18: after construction with any options, allowedFaults lies in
\* [1, floor(faultInspectionWindow / 2)], also when allowedFaults is given.
C18_AllowedFaultsInRange ==
    builderPc = "constructed" =>
        /\ 1 <= allowedFaults
        /\ allowedFaults <= faultInspectionWindow \div 2


\* C23: when neither parameter is given, the constructor draws them in the
\* ranges its comment states, for every random draw: faultInspectionWindow
\* between SLOTS_PER_EPOCH and 2 * SLOTS_PER_EPOCH, and allowedFaults
\* between 1 and SLOTS_PER_EPOCH // 2.
C23_DefaultsInCommentedRanges ==
    (/\ builderPc = "constructed"
     /\ "faultInspectionWindow" \notin DOMAIN opts
     /\ "allowedFaults" \notin DOMAIN opts)
    => /\ SLOTS_PER_EPOCH <= faultInspectionWindow
       /\ faultInspectionWindow <= 2 * SLOTS_PER_EPOCH
       /\ 1 <= allowedFaults
       /\ allowedFaults <= SLOTS_PER_EPOCH \div 2

\* What the defaults do satisfy: the window is in its range, and
\* allowedFaults is half the window, from SLOTS_PER_EPOCH // 2 up to
\* SLOTS_PER_EPOCH - 1.
DefaultsAreHalfTheWindow ==
    (/\ builderPc = "constructed"
     /\ "faultInspectionWindow" \notin DOMAIN opts
     /\ "allowedFaults" \notin DOMAIN opts)
    => /\ SLOTS_PER_EPOCH <= faultInspectionWindow
       /\ faultInspectionWindow < 2 * SLOTS_PER_EPOCH
       /\ allowedFaults = faultInspectionWindow \div 2
       /\ SLOTS_PER_EPOCH \div 2 <= allowedFaults
       /\ allowedFaults <= SLOTS_PER_EPOCH - 1

(***************************************************************************)
(* The builder gate (under SpecGate).                                      *)
(***************************************************************************)

\* The gate is disabled until the client is constructed, whatever
\* opts.enabled is.
GateStartsDisabled == builderPc # "constructed" => status = FALSE

\* A step of the client and what it does to the gate: the constructor
\* leaves it disabled, only updateStatus enables it, a checkStatus whose
\* probe failed (answered not-ok, or threw) leaves it disabled, and a
\* successful checkStatus and the other calls leave it as it was.
GateStep ==
    /\ ConstructBuilder => status' = FALSE
    /\ (~status /\ status') => UpdateStatus
    /\ StatusProbeFails => status' = FALSE
    /\ (\/ StatusProbeResolves
        \/ RegisterValidator
        \/ GetHeader
        \/ SubmitBlindedBlock) => status' = status

\* C22: status is true only if updateStatus(true) was called and no
\* updateStatus(false) and no failed checkStatus has completed since; the
\* gate starts disabled regardless of opts.enabled; getHeader,
\* submitBlindedBlock, registerValidator and a successful checkStatus never
\* change it, whether they succeed or fail.
C22_GateInvariant == []GateStartsDisabled /\ [][GateStep]_vars

\* What the client does satisfy: the gate is enabled only by updateStatus,
\* disabled only by updateStatus and by a checkStatus whose probe threw, and
\* left as it was by every other call, a checkStatus whose probe was
\* answered not-ok among them.
GateStepOfThrow ==
    /\ ConstructBuilder => status' = FALSE
    /\ (~status /\ status') => UpdateStatus
    /\ (status /\ ~status') => (UpdateStatus \/ StatusProbeRejects)
    /\ StatusProbeRejects => status' = FALSE
    /\ (\/ StatusProbeResolves
        \/ StatusProbeResolvesNotOk
        \/ RegisterValidator
        \/ GetHeader
        \/ SubmitBlindedBlock) => status' = status

GateChangesOnlyByUpdateOrThrow == []GateStartsDisabled /\ [][GateStepOfThrow]_vars

(***************************************************************************)
(* Cancellation of a duty (under SpecAbort).                               *)
(***************************************************************************)

\* The calls a task has made after signRandao: the stages it has started.
StagesStarted(task) ==
    task.produceBlockV3Calls + task.signBlockCalls + task.signBlobCalls
    + task.publishBlockCalls + task.publishBlindedBlockCalls

\* C20: an abort signal is honoured at every suspension point of a duty's
\* handling.  Once the signal has fired while a duty is in flight, the duty
\* starts no further stage, in particular makes no publish call.
C20_AbortHonoured ==
    [][abortSignal =>
          \A i \in DOMAIN tasks : StagesStarted(tasks'[i]) = StagesStarted(tasks[i])]_vars


(***************************************************************************)
(* ORARegularSync (under SpecSync; SpecSyncLive for termination and        *)
(* SpecSyncRead for getHighestBlock).                                      *)
(***************************************************************************)

\* The ranges given to the processor are the ranges fetched, in the order
\* they were fetched, each once; at most the last one fetched is not yet
\* given.
ProcessedFollowsFetched ==
    /\ Len(processedLog) <= Len(fetchedLog)
    /\ Len(fetchedLog) <= Len(processedLog) + 1
    /\ processedLog = SubSeq(fetchedLog, 1, Len(processedLog))

\* An iteration starts the next fetch and the processing of the buffer
\* together, and the buffer of a running iteration is replaced only when
\* both have completed, by the range the fetch returned.
IterationStep ==
    /\ iterations' # iterations =>
           /\ fetchState' = "pending"
           /\ processState' = "pending"
           /\ processing' = blockBuffer'
    /\ (syncPc = "awaitAll" /\ blockBuffer' # blockBuffer) =>
           /\ fetchState = "resolved"
           /\ processState = "resolved"
           /\ blockBuffer' = fetched

\* C21: in every iteration of sync() the fetch of the next range and the
\* processing of the buffered range are started together and joined; the
\* buffer is replaced by the fetched range only after both have completed,
\* so the blocks processed in iteration k+1 are the blocks fetched during
\* iteration k and no fetched range is skipped or processed twice.
C21_OneRangeAhead == []ProcessedFollowsFetched /\ [][IterationStep]_vars

\* The second iteration is running on the range fetched during the first,
\* its processing done and the third range fetched.
C21_Witness ==
    /\ syncPc = "awaitAll"
    /\ iterations = 2
    /\ Len(fetchedLog) = 3
    /\ processing = fetchedLog[2]
    /\ fetchState = "resolved"
    /\ processState = "resolved"
    /\ blockBuffer = fetchedLog[2]


\* A step of start().
StartStep == oraPc = "new" /\ oraPc' = "started"

\* A step that delivers a gossip block whose parent is, or is not, in fork
\* choice.
GossipStep(hasBlock) == gossipSeen' = Append(gossipSeen, hasBlock)

\* syncCompleted is emitted by start() on a node that is up to date, which
\* then neither subscribes nor creates a controller nor starts sync(), and
\* by a gossip block whose parent is known, which leaves the controller
\* aborted and onGossipBlock unsubscribed; by nothing else.  A gossip block
\* whose parent is unknown changes nothing.
CompletionStep ==
    /\ (StartStep /\ headSlot >= currentSlot) =>
           /\ emitted' = emitted + 1
           /\ ~subscribed'
           /\ controller' = "undefined"
           /\ syncPc' = "idle"
    /\ (StartStep /\ headSlot < currentSlot) =>
           /\ emitted' = emitted
           /\ subscribed'
           /\ controller' = "active"
           /\ syncPc' = "awaitFirst"
    /\ GossipStep(TRUE) =>
           /\ emitted' = emitted + 1
           /\ ~subscribed'
           /\ controller' = "aborted"
    /\ GossipStep(FALSE) => UNCHANGED <<emitted, controller, subscribed, abortCount>>
    /\ emitted' # emitted =>
           \/ StartStep /\ headSlot >= currentSlot
           \/ GossipStep(TRUE)

\* C24: ORARegularSync signals completion exactly in two situations: start()
\* finds headSlot >= currentSlot, or a gossip block arrives whose parent root
\* is in fork choice.  A gossip block whose parent is unknown emits nothing
\* and leaves the controller and the subscription unchanged.
C24_CompletionSignalled == [][CompletionStep]_vars

\* A gossip block with an unknown parent was delivered, then one with a
\* known parent: completion was signalled by the second, while sync() was
\* in its loop.
C24_Witness ==
    /\ gossipSeen = <<FALSE, TRUE>>
    /\ emitted = 1
    /\ controller = "aborted"
    /\ ~subscribed
    /\ syncPc = "awaitAll"


\* sync() has not failed on an empty buffer.
NoTypeError == syncError # "TypeError"

\* C25: at the start of every iteration of the loop of sync() the block
\* buffer is non-empty, so the read of the slot of its last block is defined,
\* for every sequence of ranges the fetcher returns and every interleaving
\* with stop() and gossip events.
C25_BufferNonEmptyInLoop ==
    /\ NoTypeError
    /\ syncPc = "awaitAll" =>
           /\ Len(blockBuffer) > 0
           /\ Len(processing) > 0

\* What the loop does satisfy: an iteration that has started its two calls
\* runs on a non-empty buffer, and sync() fails on the read of the last
\* block exactly when the range it was given last is empty.
TypeErrorOnEmptyRange ==
    /\ syncPc = "awaitAll" => Len(blockBuffer) > 0 /\ Len(processing) > 0
    /\ syncError = "TypeError" => blockBuffer = <<>> /\ fetched = <<>>

\* The controller is aborted at most once, and no stop() has thrown.
StopIsSafe ==
    /\ abortCount <= 1
    /\ stopResult \in {NULL, Return("void")}

\* Once the controller is aborted no iteration is started, and a stop()
\* that finds no controller, or an aborted one, aborts nothing.
StopStep ==
    /\ controller = "aborted" => iterations' = iterations
    /\ (stopCalls' # stopCalls /\ controller # "active") =>
           /\ controller' = controller
           /\ abortCount' = abortCount

\* sync() has returned or rejected.
LoopEnded == syncPc \in {"exited", "rejected"}

\* C26: after stop() on a running sync, directly or through a gossip block
\* whose parent is known, the loop starts no new iteration once the one in
\* flight completes, and it terminates if the calls in flight return;
\* stop() called again, or before any controller exists, aborts nothing
\* further and raises no error.
C26_StopEndsLoop ==
    /\ []StopIsSafe
    /\ [][StopStep]_vars
    /\ (controller = "aborted") ~> LoopEnded

\* stop() was called twice on a sync in its loop: the controller was aborted
\* once, the iteration in flight completed and the loop was left.
C26_Witness ==
    /\ stopCalls = 2
    /\ abortCount = 1
    /\ controller = "aborted"
    /\ iterations = 1
    /\ syncPc = "exited"
    /\ blockBuffer = fetchedLog[2]
    /\ gossipSeen = <<>>


\* getHighestBlock() has just returned.
GetHighestBlockStep == highestBlock' # highestBlock

\* C27: getHighestBlock returns the slot of the last block of the block
\* buffer when the buffer is non-empty, and falls back to the fork choice
\* head slot when the buffer is empty.
C27_HighestBlock ==
    [][GetHighestBlockStep =>
          highestBlock' = Return(IF Len(blockBuffer) > 0
                                 THEN blockBuffer[Len(blockBuffer)].message.slot
                                 ELSE headSlot)]_vars

\* What getHighestBlock does return: the slot of the last buffered block,
\* and 0 when the buffer is empty, whatever the head is.
HighestBlockIsLastOrZero ==
    [][GetHighestBlockStep =>
          highestBlock' = Return(IF Len(blockBuffer) > 0
                                 THEN blockBuffer[Len(blockBuffer)].message.slot
                                 ELSE 0)]_vars


\* C28: for one start() of ORARegularSync, syncCompleted is emitted at most
\* once, for every sequence and interleaving of gossip block deliveries with
\* the sync loop and stop().
C28_CompletedAtMostOnce == emitted <= 1

\* A gossip block with a known parent was delivered after an earlier block
\* and a stop() from outside followed: completion was signalled once and the
\* loop has ended.
C28_Witness ==
    /\ emitted = 1
    /\ Len(gossipSeen) = 2
    /\ gossipSeen[2] = TRUE
    /\ stopCalls >= 2
    /\ ~subscribed
    /\ LoopEnded

====
